---- MODULE Spec2Model ----
(***************************************************************************)
(* The type checker (src/src/typeck.rs) and the WebAssembly emitter        *)
(* (src/src/codegen/wasm.rs) of the bootstrap compiler, as a state machine *)
(* over abstract syntax trees (src/src/ast.rs, src/src/hir.rs).            *)
(*                                                                         *)
(* Every check_* / emit_* method is an operator of the same name that      *)
(* takes the receiver's state (self) and returns a result record           *)
(* [ok, err, self, value]; the loops of TypeChecker::check and of          *)
(* WasmGenerator::emit_program are the actions of the machine, one loop    *)
(* iteration per step.  Source spans only decorate diagnostics and are     *)
(* left out; everything else is carried.                                   *)
(***************************************************************************)
EXTENDS Integers, Sequences, FiniteSets, TLC

VARIABLES
    program,        \* ast::Program under compilation: constants, functions
    constants,      \* names of the constants registered by global collection
    pc,             \* position in check / emit_program
    index,          \* index of the loop iteration the position is in
    checker,        \* TypeChecker {functions, scopes, current_return_type, loop_stack}
    main_found,     \* local of TypeChecker::check
    hir,            \* hir::Program.functions built by check
    func_types,     \* local of emit_program
    function_indices, \* local of emit_program
    bodies,         \* local of emit_program
    module,         \* the emitted module bytes
    error,          \* the CompileError message, "" when none
    stage,          \* the stage that produced the error ("" when none)
    hash_order,     \* iteration order of the HashMaps of this run (RandomState)
    run,            \* number of the compilation of this program (1 or 2)
    first_module,   \* result of the first compilation, <<>> before it ends
    first_order,    \* hash_order of the first compilation, <<>> before it ends
    tokens,         \* the tokens the parser reads, <<>> when the tree is given
    source,         \* the characters the lexer reads, <<>> when it does not run
    lexer,          \* Lexer {index, finished}
    yielded         \* what the calls of Lexer::next have returned, in order

vars == <<program, constants, pc, index, checker, main_found, hir, func_types,
          function_indices, bodies, module, error, stage, hash_order, run,
          first_module, first_order, tokens,
          source, lexer, yielded>>

(***************************************************************************)
(* Bounds of the model.                                                    *)
(***************************************************************************)
MaxFunctions == 2
MaxStmts == 2

(***************************************************************************)
(* Option<T>, Result<T, CompileError>                                      *)
(***************************************************************************)
None == <<>>
Some(x) == <<x>>
is_some(o) == Len(o) > 0
is_none(o) == Len(o) = 0
unwrap(o) == o[1]

Ok(self, value) == [ok |-> TRUE, err |-> "", self |-> self, value |-> value]
Err(self, msg) == [ok |-> FALSE, err |-> msg, self |-> self, value |-> <<>>]

(***************************************************************************)
(* hir::Type                                                               *)
(***************************************************************************)
Type == {"I32", "I64", "F32", "F64", "Bool", "Unit"}
is_numeric(ty) == ty \in {"I32", "I64", "F32", "F64"}
is_integer(ty) == ty \in {"I32", "I64"}

I32_MAX == 2147483647
I32_MIN == -2147483647 - 1

(***************************************************************************)
(* ast: type expressions, expressions, statements, blocks, functions       *)
(***************************************************************************)
Named(name) == [kind |-> "Named", name |-> name]
UnitTy == [kind |-> "Unit"]

Literal(lit, val, suffix) ==
    [kind |-> "Literal", lit |-> lit, val |-> val, suffix |-> suffix]
Variable(name) == [kind |-> "Variable", name |-> name]
Binary(op, left, right) ==
    [kind |-> "Binary", op |-> op, left |-> left, right |-> right]
Unary(op, expr) == [kind |-> "Unary", op |-> op, expr |-> expr]
Call(callee, args) == [kind |-> "Call", callee |-> callee, args |-> args]
Group(expr) == [kind |-> "Group", expr |-> expr]
If(condition, then_branch, else_branch) ==
    [kind |-> "If", condition |-> condition, then_branch |-> then_branch,
     else_branch |-> else_branch]
Block(statements, tail) == [statements |-> statements, tail |-> tail]
BlockExpr(block) ==
    [kind |-> "Block", statements |-> block.statements, tail |-> block.tail]
Loop(body) == [kind |-> "Loop", body |-> body]
While(condition, body) ==
    [kind |-> "While", condition |-> condition, body |-> body]

Let(name, mutable, ty, value) ==
    [kind |-> "Let", name |-> name, mutable |-> mutable, ty |-> ty,
     value |-> value]
Assign(target, value) == [kind |-> "Assign", target |-> target, value |-> value]
Return(value) == [kind |-> "Return", value |-> value]
Break(value) == [kind |-> "Break", value |-> value]
Continue == [kind |-> "Continue"]
ExprStmt(expr) == [kind |-> "Expr", expr |-> expr]

Param(name, ty) == [name |-> name, ty |-> ty]
Function(name, params, return_type, body) ==
    [name |-> name, params |-> params, return_type |-> return_type,
     body |-> body]

BinaryOp == {"Add", "Sub", "Mul", "Div", "Rem", "Eq", "Ne", "Lt", "Le", "Gt",
             "Ge", "And", "Or", "BitAnd", "BitOr", "BitXor", "Shl", "Shr"}

(***************************************************************************)
(* hir: the typed tree.  Every expression but a block carries ty.          *)
(***************************************************************************)
HLiteral(lit, val, ty) == [kind |-> "Literal", lit |-> lit, val |-> val, ty |-> ty]
HVariable(name, ty) == [kind |-> "Variable", name |-> name, ty |-> ty]
HBinary(op, left, right, ty) ==
    [kind |-> "Binary", op |-> op, left |-> left, right |-> right, ty |-> ty]
HUnary(op, expr, ty) == [kind |-> "Unary", op |-> op, expr |-> expr, ty |-> ty]
HCall(callee, args, ty) ==
    [kind |-> "Call", callee |-> callee, args |-> args, ty |-> ty]
HIf(condition, then_branch, else_branch, ty) ==
    [kind |-> "If", condition |-> condition, then_branch |-> then_branch,
     else_branch |-> else_branch, ty |-> ty]
HLoop(body, ty) == [kind |-> "Loop", body |-> body, ty |-> ty]
HWhile(condition, body, ty) ==
    [kind |-> "While", condition |-> condition, body |-> body, ty |-> ty]
HLet(name, mutable, ty, value) ==
    [kind |-> "Let", name |-> name, mutable |-> mutable, ty |-> ty,
     value |-> value]
HParam(name, ty) == [name |-> name, ty |-> ty]
HFunction(name, params, return_type, body) ==
    [name |-> name, params |-> params, return_type |-> return_type,
     body |-> body]

RECURSIVE expr_ty(_)
\* hir::Expression::ty, hir::Block::ty
block_ty(block) ==
    IF is_some(block.tail) THEN expr_ty(unwrap(block.tail)) ELSE "Unit"
expr_ty(expr) ==
    IF expr.kind = "Block" THEN block_ty(expr) ELSE expr.ty

(***************************************************************************)
(* HashMap<String, V>: a function on the set of its keys.  The type        *)
(* checker and the emitter only insert, get and test keys.                 *)
(***************************************************************************)
HashMap_new == [k \in {} |-> 0]
contains_key(map, key) == key \in DOMAIN map
insert(map, key, value) ==
    [k \in (DOMAIN map) \cup {key} |-> IF k = key THEN value ELSE map[k]]

(***************************************************************************)
(* typeck.rs                                                               *)
(***************************************************************************)
FunctionSignature(params, return_type) ==
    [params |-> params, return_type |-> return_type]
VariableInfo(ty, mutable) == [ty |-> ty, mutable |-> mutable]

\* LoopContext::new
LoopContext_new(kind) == [kind |-> kind, break_type |-> None]


\* record_break that keeps the type of the first break and accepts the others
record_break_first_wins(context, ty) ==
    IF context.kind = "Loop"
    THEN IF is_some(context.break_type) THEN Ok(context, <<>>)
         ELSE Ok([context EXCEPT !.break_type = Some(ty)], <<>>)
    ELSE IF ty # "Unit"
         THEN Err(context,
                  "break with a value is only allowed inside loop expressions")
         ELSE Ok(context, <<>>)

\* LoopContext::record_break: the context after the break, or the error
record_break(context, ty) ==
    IF context.kind = "Loop"
    THEN IF is_some(context.break_type)
         THEN IF unwrap(context.break_type) # ty
              THEN Err(context, "break value type mismatch")
              ELSE Ok(context, <<>>)
         ELSE Ok([context EXCEPT !.break_type = Some(ty)], <<>>)
    ELSE IF ty # "Unit"
         THEN Err(context,
                  "break with a value is only allowed inside loop expressions")
         ELSE Ok(context, <<>>)

\* TypeChecker::new: the intrinsics' signatures
Intrinsics ==
    [load_u8   |-> FunctionSignature(<<"I32">>, "I32"),
     store_u8  |-> FunctionSignature(<<"I32", "I32">>, "Unit"),
     load_i32  |-> FunctionSignature(<<"I32">>, "I32"),
     store_i32 |-> FunctionSignature(<<"I32", "I32">>, "Unit"),
     load_i64  |-> FunctionSignature(<<"I32">>, "I64"),
     store_i64 |-> FunctionSignature(<<"I32", "I64">>, "Unit"),
     load_f32  |-> FunctionSignature(<<"I32">>, "F32"),
     store_f32 |-> FunctionSignature(<<"I32", "F32">>, "Unit"),
     load_f64  |-> FunctionSignature(<<"I32">>, "F64"),
     store_f64 |-> FunctionSignature(<<"I32", "F64">>, "Unit")]

TypeChecker_new ==
    [functions |-> Intrinsics,
     scopes |-> <<>>,
     current_return_type |-> "Unit",
     loop_stack |-> <<>>]

\* TypeChecker::type_from_type_expr
type_from_type_expr(ty) ==
    IF ty.kind = "Named"
    THEN CASE ty.name = "i32" -> [ok |-> TRUE, err |-> "", ty |-> "I32"]
           [] ty.name = "i64" -> [ok |-> TRUE, err |-> "", ty |-> "I64"]
           [] ty.name = "f32" -> [ok |-> TRUE, err |-> "", ty |-> "F32"]
           [] ty.name = "f64" -> [ok |-> TRUE, err |-> "", ty |-> "F64"]
           [] ty.name = "bool" -> [ok |-> TRUE, err |-> "", ty |-> "Bool"]
           [] OTHER -> [ok |-> FALSE, err |-> "unknown type", ty |-> "Unit"]
    ELSE [ok |-> TRUE, err |-> "", ty |-> "Unit"]

\* TypeChecker::enter_scope, exit_scope (ScopeGuard::new, ScopeGuard::drop)
enter_scope(self) == [self EXCEPT !.scopes = Append(@, HashMap_new)]
\* an exit_scope that leaves the names of the block in place
exit_scope_keeps_names(self) ==
    [self EXCEPT !.scopes =
        IF Len(@) < 2 THEN <<>> ELSE
        SubSeq(@, 1, Len(@) - 2)
        \o <<[name \in DOMAIN @[Len(@) - 1] \cup DOMAIN @[Len(@)] |->
                IF name \in DOMAIN @[Len(@)] THEN @[Len(@)][name]
                ELSE @[Len(@) - 1][name]]>>]
exit_scope(self) == [self EXCEPT !.scopes = SubSeq(@, 1, Len(@) - 1)]

RECURSIVE lookup_scopes(_, _, _)
lookup_scopes(scopes, i, name) ==
    IF i = 0 THEN None
    ELSE IF contains_key(scopes[i], name) THEN Some(scopes[i][name])
    ELSE lookup_scopes(scopes, i - 1, name)

\* TypeChecker::lookup_var: innermost scope first
lookup_var(self, name) ==
    LET found == lookup_scopes(self.scopes, Len(self.scopes), name)
    IN  IF is_some(found) THEN Ok(self, unwrap(found))
        ELSE Err(self, "unknown identifier")

\* binary_result_type that widens the narrower of two integer operands
binary_result_type_widening(op, left, right) ==
    LET wide == IF is_integer(left) /\ is_integer(right) THEN "I64" ELSE left
        same == left = right \/ (is_integer(left) /\ is_integer(right))
    IN  CASE op \in {"Add", "Sub", "Mul", "Div"} ->
               IF same /\ is_numeric(left)
               THEN [ok |-> TRUE, err |-> "", ty |-> wide]
               ELSE [ok |-> FALSE, ty |-> "Unit",
                     err |-> "arithmetic operands must share numeric type"]
          [] op \in {"Rem", "BitAnd", "BitOr", "BitXor", "Shl", "Shr"} ->
               IF same /\ is_integer(left)
               THEN [ok |-> TRUE, err |-> "", ty |-> wide]
               ELSE [ok |-> FALSE, ty |-> "Unit",
                     err |-> "operands must share integer type"]
          [] op \in {"Eq", "Ne"} ->
               IF same
               THEN [ok |-> TRUE, err |-> "", ty |-> "Bool"]
               ELSE [ok |-> FALSE, ty |-> "Unit",
                     err |-> "equality operands must share type"]
          [] op \in {"Lt", "Le", "Gt", "Ge"} ->
               IF same /\ is_numeric(left)
               THEN [ok |-> TRUE, err |-> "", ty |-> "Bool"]
               ELSE [ok |-> FALSE, ty |-> "Unit",
                     err |-> "comparison operands must share numeric type"]
          [] op \in {"And", "Or"} ->
               IF left = "Bool" /\ right = "Bool"
               THEN [ok |-> TRUE, err |-> "", ty |-> "Bool"]
               ELSE [ok |-> FALSE, ty |-> "Unit",
                     err |-> "logical operands must be boolean"]

\* TypeChecker::binary_result_type
binary_result_type(op, left, right) ==
    CASE op \in {"Add", "Sub", "Mul", "Div"} ->
           IF left = right /\ is_numeric(left)
           THEN [ok |-> TRUE, err |-> "", ty |-> left]
           ELSE [ok |-> FALSE, ty |-> "Unit",
                 err |-> "arithmetic operands must share numeric type"]
      [] op = "Rem" ->
           IF left # right
           THEN [ok |-> FALSE, ty |-> "Unit",
                 err |-> "remainder operands must share type"]
           ELSE IF ~is_integer(left)
           THEN [ok |-> FALSE, ty |-> "Unit",
                 err |-> "remainder is only supported for integer types"]
           ELSE [ok |-> TRUE, err |-> "", ty |-> left]
      [] op \in {"BitAnd", "BitOr", "BitXor"} ->
           IF left # right
           THEN [ok |-> FALSE, ty |-> "Unit",
                 err |-> "bitwise operands must share type"]
           ELSE IF ~is_integer(left)
           THEN [ok |-> FALSE, ty |-> "Unit",
                 err |-> "bitwise operations require integer types"]
           ELSE [ok |-> TRUE, err |-> "", ty |-> left]
      [] op \in {"Shl", "Shr"} ->
           IF left # right
           THEN [ok |-> FALSE, ty |-> "Unit",
                 err |-> "shift operands must share type"]
           ELSE IF ~is_integer(left)
           THEN [ok |-> FALSE, ty |-> "Unit",
                 err |-> "shifts are only supported for integer types"]
           ELSE [ok |-> TRUE, err |-> "", ty |-> left]
      [] op \in {"Eq", "Ne"} ->
           IF left = right
           THEN [ok |-> TRUE, err |-> "", ty |-> "Bool"]
           ELSE [ok |-> FALSE, ty |-> "Unit",
                 err |-> "equality operands must share type"]
      [] op \in {"Lt", "Le", "Gt", "Ge"} ->
           IF left = right /\ is_numeric(left)
           THEN [ok |-> TRUE, err |-> "", ty |-> "Bool"]
           ELSE [ok |-> FALSE, ty |-> "Unit",
                 err |-> "comparison operands must share numeric type"]
      [] op \in {"And", "Or"} ->
           IF left = "Bool" /\ right = "Bool"
           THEN [ok |-> TRUE, err |-> "", ty |-> "Bool"]
           ELSE [ok |-> FALSE, ty |-> "Unit",
                 err |-> "logical operands must be boolean"]

\* TypeChecker::check_literal
check_literal(self, lit) ==
    CASE lit.lit = "Int" ->
           LET ty == IF lit.suffix \in {"None", "I32"} THEN "I32" ELSE "I64"
           IN  IF ty = "I32" /\ (lit.val < I32_MIN \/ lit.val > I32_MAX)
               THEN Err(self, "integer literal out of range for i32")
               ELSE Ok(self, HLiteral("Int", lit.val, ty))
      [] lit.lit = "Float" ->
           LET ty == IF lit.suffix \in {"None", "F32"} THEN "F32" ELSE "F64"
           IN  Ok(self, HLiteral("Float", lit.val, ty))
      [] lit.lit = "Bool" -> Ok(self, HLiteral("Bool", lit.val, "Bool"))

\* TypeChecker::check_variable
check_variable(self, var) ==
    LET info == lookup_var(self, var.name)
    IN  IF ~info.ok THEN Err(self, info.err)
        ELSE Ok(self, HVariable(var.name, info.value.ty))

\* TypeChecker::check_continue
check_continue(self, stmt) ==
    IF Len(self.loop_stack) = 0
    THEN Err(self, "continue outside of loop")
    ELSE Ok(self, Continue)

RECURSIVE check_expression(_, _)
RECURSIVE check_block(_, _)
RECURSIVE check_statements(_, _, _, _)
RECURSIVE check_args(_, _, _, _, _)

\* the part of check_break after the test of the loop stack: record the
\* type with the innermost loop context
check_break_record(self, ty, value) ==
    LET n == Len(self.loop_stack)
        recorded == record_break(self.loop_stack[n], ty)
    IN  IF ~recorded.ok THEN Err(self, recorded.err)
        ELSE Ok([self EXCEPT !.loop_stack[n] = recorded.self], Break(value))

\* TypeChecker::check_break
check_break(self, stmt) ==
    LET record(value) ==
            IF ~value.ok THEN value
            ELSE check_break_record(value.self, expr_ty(value.value),
                                    Some(value.value))
    IN  IF Len(self.loop_stack) = 0
        THEN Err(self, "break outside of loop")
        ELSE IF is_some(stmt.value)
        THEN record(check_expression(self, unwrap(stmt.value)))
        ELSE check_break_record(self, "Unit", None)

\* TypeChecker::check_let
check_let(self, stmt) ==
    LET declared_ty == type_from_type_expr(stmt.ty)
        bind(value) ==
            IF ~value.ok THEN value
            ELSE IF expr_ty(value.value) # declared_ty.ty
            THEN Err(value.self,
                     "expected declared type but expression has another")
            ELSE
            LET n == Len(value.self.scopes)
                dup == contains_key(value.self.scopes[n], stmt.name)
                after == [value.self EXCEPT !.scopes[n] =
                            insert(@, stmt.name,
                                   VariableInfo(declared_ty.ty, stmt.mutable))]
            IN  IF dup
                THEN Err(after, "variable already defined in this scope")
                ELSE Ok(after, HLet(stmt.name, stmt.mutable, declared_ty.ty,
                                    value.value))
    IN  IF ~declared_ty.ok THEN Err(self, declared_ty.err)
        ELSE bind(check_expression(self, stmt.value))

\* TypeChecker::check_assign
check_assign(self, stmt) ==
    LET info == lookup_var(self, stmt.target)
        store(value) ==
            IF ~value.ok THEN value
            ELSE IF expr_ty(value.value) # info.value.ty
            THEN Err(value.self,
                     "expected binding type but expression has another")
            ELSE Ok(value.self, Assign(stmt.target, value.value))
    IN  IF ~info.ok THEN Err(self, info.err)
        ELSE IF ~info.value.mutable
        THEN Err(self, "cannot assign to immutable binding")
        ELSE store(check_expression(self, stmt.value))

\* TypeChecker::check_return
check_return(self, stmt) ==
    LET returned(value) ==
            IF ~value.ok THEN value
            ELSE IF expr_ty(value.value) # value.self.current_return_type
            THEN Err(value.self, "expected return type but found another")
            ELSE Ok(value.self, Return(Some(value.value)))
    IN  IF is_some(stmt.value)
        THEN returned(check_expression(self, unwrap(stmt.value)))
        ELSE IF self.current_return_type # "Unit"
        THEN Err(self, "expected value of return type")
        ELSE Ok(self, Return(None))

\* TypeChecker::check_binary
check_binary(self, expr) ==
    LET typed(left, right) ==
            IF ~right.ok THEN right
            ELSE
            LET ty == binary_result_type(expr.op, expr_ty(left.value),
                                         expr_ty(right.value))
            IN  IF ~ty.ok THEN Err(right.self, ty.err)
                ELSE Ok(right.self,
                        HBinary(expr.op, left.value, right.value, ty.ty))
        with_left(left) ==
            IF ~left.ok THEN left
            ELSE typed(left, check_expression(left.self, expr.right))
    IN  with_left(check_expression(self, expr.left))

\* TypeChecker::check_unary
check_unary(self, expr) ==
    LET typed(operand) ==
            IF ~operand.ok THEN operand
            ELSE IF expr.op = "Neg"
            THEN IF is_numeric(expr_ty(operand.value))
                 THEN Ok(operand.self,
                         HUnary("Neg", operand.value, expr_ty(operand.value)))
                 ELSE Err(operand.self, "- requires numeric operand")
            ELSE IF expr_ty(operand.value) = "Bool"
                 THEN Ok(operand.self, HUnary("Not", operand.value, "Bool"))
                 ELSE Err(operand.self, "! requires boolean operand")
    IN  typed(check_expression(self, expr.expr))

\* the argument loop of check_call
check_args(self, args, params, i, acc) ==
    LET next(arg) ==
            IF ~arg.ok THEN arg
            ELSE IF expr_ty(arg.value) # params[i]
            THEN Err(arg.self, "expected argument of parameter type")
            ELSE check_args(arg.self, args, params, i + 1,
                            Append(acc, arg.value))
    IN  IF i > Len(args) THEN Ok(self, acc)
        ELSE next(check_expression(self, args[i]))

\* TypeChecker::check_call
check_call(self, call) ==
    LET typed(signature, args) ==
            IF ~args.ok THEN args
            ELSE Ok(args.self,
                    HCall(call.callee, args.value, signature.return_type))
        with_signature(signature) ==
            IF Len(signature.params) # Len(call.args)
            THEN Err(self, "function expects another number of arguments")
            ELSE typed(signature,
                       check_args(self, call.args, signature.params, 1, <<>>))
    IN  IF ~contains_key(self.functions, call.callee)
        THEN Err(self, "unknown function")
        ELSE with_signature(self.functions[call.callee])

\* TypeChecker::check_if
check_if(self, if_expr) ==
    LET typed(condition, then_block, else_expr) ==
            IF ~else_expr.ok THEN else_expr
            ELSE IF block_ty(then_block.value) # expr_ty(else_expr.value)
            THEN Err(else_expr.self, "mismatched branch types")
            ELSE Ok(else_expr.self,
                    HIf(condition.value, then_block.value,
                        Some(else_expr.value), block_ty(then_block.value)))
        with_then(condition, then_block) ==
            IF ~then_block.ok THEN then_block
            ELSE IF is_some(if_expr.else_branch)
            THEN typed(condition, then_block,
                       check_expression(then_block.self,
                                        unwrap(if_expr.else_branch)))
            ELSE Ok(then_block.self,
                    HIf(condition.value, then_block.value, None, "Unit"))
        with_condition(condition) ==
            IF ~condition.ok THEN condition
            ELSE IF expr_ty(condition.value) # "Bool"
            THEN Err(condition.self, "if condition must be boolean")
            ELSE with_then(condition,
                           check_block(condition.self, if_expr.then_branch))
    IN  with_condition(check_expression(self, if_expr.condition))

\* self.loop_stack.pop()
pop_loop(self) ==
    [self EXCEPT !.loop_stack =
        IF Len(@) = 0 THEN @ ELSE SubSeq(@, 1, Len(@) - 1)]


\* check_loop that leaves its context on the loop stack when the body is fine
check_loop_keeps_context(self, loop_expr) ==
    LET typed(body) ==
            LET context == body.self.loop_stack[Len(body.self.loop_stack)]
            IN  IF body.ok
                THEN Ok(body.self,
                        HLoop(body.value,
                              IF is_some(context.break_type)
                              THEN unwrap(context.break_type) ELSE "Unit"))
                ELSE Err(pop_loop(body.self), body.err)
    IN  typed(check_block([self EXCEPT !.loop_stack =
                              Append(@, LoopContext_new("Loop"))],
                          loop_expr.body))

\* TypeChecker::check_loop
check_loop(self, loop_expr) ==
    LET typed(body) ==
            LET context == body.self.loop_stack[Len(body.self.loop_stack)]
            IN  IF body.ok
                THEN Ok(pop_loop(body.self),
                        HLoop(body.value,
                              IF is_some(context.break_type)
                              THEN unwrap(context.break_type) ELSE "Unit"))
                ELSE Err(pop_loop(body.self), body.err)
    IN  typed(check_block([self EXCEPT !.loop_stack =
                              Append(@, LoopContext_new("Loop"))],
                          loop_expr.body))

\* TypeChecker::check_while
check_while(self, while_expr) ==
    LET typed(condition, body) ==
            IF body.ok
            THEN Ok(pop_loop(body.self),
                    HWhile(condition.value, body.value, "Unit"))
            ELSE Err(pop_loop(body.self), body.err)
        with_condition(condition) ==
            IF ~condition.ok THEN condition
            ELSE IF expr_ty(condition.value) # "Bool"
            THEN Err(condition.self, "while condition must be boolean")
            ELSE typed(condition,
                       check_block([condition.self EXCEPT !.loop_stack =
                                       Append(@, LoopContext_new("While"))],
                                   while_expr.body))
    IN  with_condition(check_expression(self, while_expr.condition))

\* the value of a result made an expression from a block or a statement
\* from an expression
map_value(result, f(_)) ==
    IF ~result.ok THEN result ELSE Ok(result.self, f(result.value))

\* TypeChecker::check_expression
check_expression(self, expr) ==
    CASE expr.kind = "Literal" -> check_literal(self, expr)
      [] expr.kind = "Variable" -> check_variable(self, expr)
      [] expr.kind = "Binary" -> check_binary(self, expr)
      [] expr.kind = "Unary" -> check_unary(self, expr)
      [] expr.kind = "Call" -> check_call(self, expr)
      [] expr.kind = "Group" -> check_expression(self, expr.expr)
      [] expr.kind = "If" -> check_if(self, expr)
      [] expr.kind = "Block" -> map_value(check_block(self, expr), BlockExpr)
      [] expr.kind = "Loop" -> check_loop(self, expr)
      [] expr.kind = "While" -> check_while(self, expr)

\* the match on one statement in check_block
check_statement(self, statement) ==
    CASE statement.kind = "Let" -> check_let(self, statement)
      [] statement.kind = "Assign" -> check_assign(self, statement)
      [] statement.kind = "Return" -> check_return(self, statement)
      [] statement.kind = "Break" -> check_break(self, statement)
      [] statement.kind = "Continue" -> check_continue(self, statement)
      [] statement.kind = "Expr" ->
           map_value(check_expression(self, statement.expr), ExprStmt)

\* the statement loop of check_block
check_statements(self, statements, i, acc) ==
    LET next(typed) ==
            IF ~typed.ok THEN typed
            ELSE check_statements(typed.self, statements, i + 1,
                                  Append(acc, typed.value))
    IN  IF i > Len(statements) THEN Ok(self, acc)
        ELSE next(check_statement(self, statements[i]))


\* check_block that leaves its scope only when it returns a block
check_block_leaves_on_success(self, block) ==
    LET with_tail(statements, tail) ==
            IF ~tail.ok THEN tail
            ELSE Ok(exit_scope(tail.self),
                    Block(statements.value, Some(tail.value)))
        with_statements(statements) ==
            IF ~statements.ok THEN statements
            ELSE IF is_some(block.tail)
            THEN with_tail(statements,
                           check_expression(statements.self,
                                            unwrap(block.tail)))
            ELSE Ok(exit_scope(statements.self),
                    Block(statements.value, None))
    IN  with_statements(check_statements(enter_scope(self), block.statements,
                                         1, <<>>))

\* TypeChecker::check_block: the scope is left on every return (ScopeGuard)
check_block(self, block) ==
    LET with_tail(statements, tail) ==
            IF ~tail.ok THEN Err(exit_scope(tail.self), tail.err)
            ELSE Ok(exit_scope(tail.self),
                    Block(statements.value, Some(tail.value)))
        with_statements(statements) ==
            IF ~statements.ok
            THEN Err(exit_scope(statements.self), statements.err)
            ELSE IF is_some(block.tail)
            THEN with_tail(statements,
                           check_expression(statements.self,
                                            unwrap(block.tail)))
            ELSE Ok(exit_scope(statements.self),
                    Block(statements.value, None))
    IN  with_statements(check_statements(enter_scope(self), block.statements,
                                         1, <<>>))

\* the parameter loop of check_function
RECURSIVE check_params(_, _, _, _, _)
check_params(self, param_asts, param_tys, i, acc) ==
    IF i > Len(param_asts) \/ i > Len(param_tys) THEN Ok(self, acc)
    ELSE
    LET n == Len(self.scopes)
        dup == contains_key(self.scopes[n], param_asts[i].name)
        after == [self EXCEPT !.scopes[n] =
                    insert(@, param_asts[i].name,
                           VariableInfo(param_tys[i], FALSE))]
    IN  IF dup THEN Err(after, "duplicate parameter")
        ELSE check_params(after, param_asts, param_tys, i + 1,
                          Append(acc, HParam(param_asts[i].name, param_tys[i])))

\* TypeChecker::check_function
check_function(self, function) ==
    LET typed(signature, params, body) ==
            IF ~body.ok THEN Err(exit_scope(body.self), body.err)
            ELSE IF signature.return_type # "Unit"
                    /\ block_ty(body.value) # signature.return_type
            THEN Err(exit_scope(body.self),
                     "function must return its type but block evaluates to another")
            ELSE Ok(exit_scope(body.self),
                    HFunction(function.name, params.value,
                              signature.return_type, body.value))
        with_params(signature, params) ==
            IF ~params.ok THEN Err(exit_scope(params.self), params.err)
            ELSE typed(signature, params,
                       check_block(params.self, function.body))
        with_signature(signature) ==
            with_params(signature,
                        check_params(
                            enter_scope([self EXCEPT !.current_return_type =
                                            signature.return_type]),
                            function.params, signature.params, 1, <<>>))
    IN  IF ~contains_key(self.functions, function.name)
        THEN Err(self, "unknown function")
        ELSE with_signature(self.functions[function.name])

(***************************************************************************)
(* codegen/wasm.rs: encoding primitives.  A byte is a number in 0..255.    *)
(***************************************************************************)
RECURSIVE encode_u32(_)
\* encode_u32: LEB128 of an unsigned value
encode_u32(value) ==
    LET byte == value % 128
        rest == value \div 128
    IN  IF rest # 0 THEN <<byte + 128>> \o encode_u32(rest) ELSE <<byte>>

RECURSIVE encode_i32(_)
\* encode_i32: signed LEB128; >>= on an i32 is the flooring division
encode_i32(value) ==
    LET byte == value % 128
        rest == value \div 128
        sign_bit == byte >= 64
        done == (rest = 0 /\ ~sign_bit) \/ (rest = -1 /\ sign_bit)
    IN  IF done THEN <<byte>> ELSE <<byte + 128>> \o encode_i32(rest)

\* encode_i64: the same loop on an i64
encode_i64(value) == encode_i32(value)

\* str::as_bytes of the names the programs use
as_bytes(name) ==
    CASE name = "main" -> <<109, 97, 105, 110>>
      [] name = "helper" -> <<104, 101, 108, 112, 101, 114>>
      [] name = "load_u8" -> <<108, 111, 97, 100, 95, 117, 56>>
      [] name = "other" -> <<111, 116, 104, 101, 114>>
      [] name = "memory" -> <<109, 101, 109, 111, 114, 121>>

\* encode_name
encode_name(name) == encode_u32(Len(as_bytes(name))) \o as_bytes(name)

\* push_section
push_section(module_bytes, id, contents) ==
    module_bytes \o <<id>> \o encode_u32(Len(contents)) \o contents

\* f32::to_bits().to_le_bytes() and f64::to_bits().to_le_bytes() of the
\* float literals the programs use; a float literal's val counts halves
f32_le_bytes(val) ==
    CASE val = 0 -> <<0, 0, 0, 0>>
      [] val = 2 -> <<0, 0, 128, 63>>
      [] val = 3 -> <<0, 0, 192, 63>>
f64_le_bytes(val) ==
    CASE val = 0 -> <<0, 0, 0, 0, 0, 0, 0, 0>>
      [] val = 2 -> <<0, 0, 0, 0, 0, 0, 240, 63>>
      [] val = 3 -> <<0, 0, 0, 0, 0, 0, 248, 63>>

\* wasm_value_type
wasm_value_type(ty) ==
    CASE ty \in {"I32", "Bool"} -> [ok |-> TRUE, err |-> "", byte |-> 127]
      [] ty = "I64" -> [ok |-> TRUE, err |-> "", byte |-> 126]
      [] ty = "F32" -> [ok |-> TRUE, err |-> "", byte |-> 125]
      [] ty = "F64" -> [ok |-> TRUE, err |-> "", byte |-> 124]
      [] ty = "Unit" -> [ok |-> FALSE, byte |-> 0,
                         err |-> "unit type has no wasm representation"]

\* wasm_value_type_for_local
wasm_value_type_for_local(ty) ==
    wasm_value_type(IF ty = "Bool" THEN "I32" ELSE ty)

(***************************************************************************)
(* codegen/wasm.rs: FunctionEmitter                                        *)
(***************************************************************************)
Binding(local_index) == [index |-> local_index]
EmitLoopContext(break_index, continue_index, result_local) ==
    [break_index |-> break_index, continue_index |-> continue_index,
     result_local |-> result_local]

\* FunctionEmitter::new
FunctionEmitter_new(func, indices) ==
    [function_indices |-> indices,
     locals |-> <<>>,
     scopes |-> <<>>,
     instructions |-> <<>>,
     label_stack |-> <<>>,
     loop_stack |-> <<>>,
     param_count |-> Len(func.params)]

push(self, bytes) == [self EXCEPT !.instructions = @ \o bytes]

\* push_scope, pop_scope
push_scope(self) == [self EXCEPT !.scopes = Append(@, HashMap_new)]
pop_scope(self) == [self EXCEPT !.scopes = SubSeq(@, 1, Len(@) - 1)]

\* insert_binding
insert_binding(self, name, binding) ==
    IF Len(self.scopes) > 0
    THEN [self EXCEPT !.scopes[Len(self.scopes)] = insert(@, name, binding)]
    ELSE self

\* lookup_binding
lookup_binding(self, name) ==
    LET found == lookup_scopes(self.scopes, Len(self.scopes), name)
    IN  IF is_some(found) THEN Ok(self, unwrap(found))
        ELSE Err(self, "unknown identifier")

\* allocate_local: the state after it; the index it returns is next_local
next_local(self) == self.param_count + Len(self.locals)
allocate_local(self, ty) == [self EXCEPT !.locals = Append(@, ty)]

\* push_label (the index it returns is the old length)
push_label(self, kind) == [self EXCEPT !.label_stack = Append(@, kind)]

\* pop_label that leaves the label on the stack
pop_label_keeps_label(self) == self
\* pop_label
pop_label(self) ==
    [self EXCEPT !.label_stack =
        IF Len(@) = 0 THEN @ ELSE SubSeq(@, 1, Len(@) - 1)]


\* label_depth that counts the target label among the labels above it
label_depth_with_target(self, target_index) ==
    Len(self.label_stack) - target_index

\* label_depth
label_depth(self, target_index) == (Len(self.label_stack) - 1) - target_index

emit_local_get(self, local_index) == push(self, <<32>> \o encode_u32(local_index))
emit_local_set(self, local_index) == push(self, <<33>> \o encode_u32(local_index))
emit_br(self, target_index) ==
    push(self, <<12>> \o encode_u32(label_depth(self, target_index)))
emit_br_if(self, target_index) ==
    push(self, <<13>> \o encode_u32(label_depth(self, target_index)))

\* start_block, start_loop, start_if: result is None or Some(valtype)
block_type_byte(result) == IF is_some(result) THEN unwrap(result) ELSE 64
start_block(self, result) ==
    push_label(push(self, <<2, block_type_byte(result)>>), "Block")
start_loop(self) == push_label(push(self, <<3, 64>>), "Loop")
start_if(self, result) ==
    push_label(push(self, <<4, block_type_byte(result)>>), "If")
start_else(self) == push(self, <<5>>)
end_block(self) == pop_label(push(self, <<11>>))

\* emit_literal
emit_literal(self, lit) ==
    CASE lit.ty = "I32" /\ lit.lit = "Int" ->
           Ok(push(self, <<65>> \o encode_i32(lit.val)), <<>>)
      [] lit.ty = "I64" /\ lit.lit = "Int" ->
           Ok(push(self, <<66>> \o encode_i64(lit.val)), <<>>)
      [] lit.ty = "F32" /\ lit.lit = "Float" ->
           Ok(push(self, <<67>> \o f32_le_bytes(lit.val)), <<>>)
      [] lit.ty = "F64" /\ lit.lit = "Float" ->
           Ok(push(self, <<68>> \o f64_le_bytes(lit.val)), <<>>)
      [] lit.ty = "Bool" /\ lit.lit = "Bool" ->
           Ok(push(self, <<65>> \o encode_i32(IF lit.val # 0 THEN 1 ELSE 0)),
              <<>>)
      [] OTHER -> Err(self, "invalid literal representation")

\* emit_variable
emit_variable(self, var) ==
    LET binding == lookup_binding(self, var.name)
    IN  IF ~binding.ok THEN binding
        ELSE Ok(emit_local_get(self, binding.value.index), <<>>)

\* the opcode table of emit_binary: None where the operand type has none
binary_opcode(op, operand_ty) ==
    LET four(i32, i64, f32, f64) ==
            CASE operand_ty = "I32" -> Some(i32)
              [] operand_ty = "I64" -> Some(i64)
              [] operand_ty = "F32" -> Some(f32)
              [] operand_ty = "F64" -> Some(f64)
              [] OTHER -> None
        eq(i32, i64, f32, f64) ==
            CASE operand_ty \in {"I32", "Bool"} -> Some(i32)
              [] operand_ty = "I64" -> Some(i64)
              [] operand_ty = "F32" -> Some(f32)
              [] operand_ty = "F64" -> Some(f64)
              [] operand_ty = "Unit" -> None
        int(i32, i64) ==
            CASE operand_ty = "I32" -> Some(i32)
              [] operand_ty = "I64" -> Some(i64)
              [] OTHER -> None
    IN  CASE op = "Add" -> four(106, 124, 146, 160)
          [] op = "Sub" -> four(107, 125, 147, 161)
          [] op = "Mul" -> four(108, 126, 148, 162)
          [] op = "Div" -> four(109, 127, 149, 163)
          [] op = "Rem" -> int(111, 129)
          [] op = "Eq" -> eq(70, 81, 91, 97)
          [] op = "Ne" -> eq(71, 82, 92, 98)
          [] op = "Lt" -> four(72, 83, 93, 99)
          [] op = "Le" -> four(76, 87, 95, 101)
          [] op = "Gt" -> four(74, 85, 94, 100)
          [] op = "Ge" -> four(78, 89, 96, 102)
          [] op = "BitAnd" -> int(113, 131)
          [] op = "BitOr" -> int(114, 132)
          [] op = "BitXor" -> int(115, 133)
          [] op = "Shl" -> int(116, 134)
          [] op = "Shr" -> int(117, 135)

\* the message of emit_binary where the operand type has no opcode
binary_opcode_error(op) ==
    CASE op = "Add" -> "unsupported add operand type"
      [] op = "Sub" -> "unsupported sub operand type"
      [] op = "Mul" -> "unsupported mul operand type"
      [] op = "Div" -> "unsupported div operand type"
      [] op = "Rem" -> "remainder not supported for this type"
      [] op \in {"Eq", "Ne"} -> "cannot compare unit values"
      [] op \in {"Lt", "Le", "Gt", "Ge"} -> "unsupported comparison operand type"
      [] op = "BitAnd" -> "& only supports integer operands"
      [] op = "BitOr" -> "| only supports integer operands"
      [] op = "BitXor" -> "^ only supports integer operands"
      [] op = "Shl" -> "<< only supports integer operands"
      [] op = "Shr" -> ">> only supports integer operands"

\* the table of emit_intrinsic_call: argument count, opcode, alignment
intrinsic(callee) ==
    CASE callee = "load_u8" -> Some([args |-> 1, code |-> <<45, 0, 0>>])
      [] callee = "store_u8" -> Some([args |-> 2, code |-> <<58, 0, 0>>])
      [] callee = "load_i32" -> Some([args |-> 1, code |-> <<40, 2, 0>>])
      [] callee = "store_i32" -> Some([args |-> 2, code |-> <<54, 2, 0>>])
      [] callee = "load_i64" -> Some([args |-> 1, code |-> <<41, 3, 0>>])
      [] callee = "store_i64" -> Some([args |-> 2, code |-> <<55, 3, 0>>])
      [] callee = "load_f32" -> Some([args |-> 1, code |-> <<42, 2, 0>>])
      [] callee = "store_f32" -> Some([args |-> 2, code |-> <<56, 2, 0>>])
      [] callee = "load_f64" -> Some([args |-> 1, code |-> <<43, 3, 0>>])
      [] callee = "store_f64" -> Some([args |-> 2, code |-> <<57, 3, 0>>])
      [] OTHER -> None

RECURSIVE emit_expression(_, _)
RECURSIVE emit_block(_, _, _)
RECURSIVE emit_statements(_, _, _)
RECURSIVE emit_args(_, _, _)

\* the result with more bytes pushed, unless it is an error
then_push(result, bytes) ==
    IF ~result.ok THEN result ELSE Ok(push(result.self, bytes), <<>>)

\* emit_logical that emits both operands and combines them bitwise
emit_logical_eager(self, expr) ==
    LET with_left(left) ==
            IF ~left.ok THEN left
            ELSE then_push(emit_expression(left.self, expr.right),
                           IF expr.op = "And" THEN <<113>> ELSE <<114>>)
    IN  with_left(emit_expression(self, expr.left))

\* emit_logical
emit_logical(self, expr) ==
    LET and_right(right) ==
            IF ~right.ok THEN right
            ELSE Ok(end_block(push(start_else(right.self),
                                   <<65>> \o encode_i32(0))), <<>>)
        or_right(right) ==
            IF ~right.ok THEN right ELSE Ok(end_block(right.self), <<>>)
        with_left(left) ==
            IF ~left.ok THEN left
            ELSE IF expr.op = "And"
            THEN and_right(emit_expression(start_if(left.self, Some(127)),
                                           expr.right))
            ELSE or_right(emit_expression(
                              start_else(push(start_if(left.self, Some(127)),
                                              <<65>> \o encode_i32(1))),
                              expr.right))
    IN  with_left(emit_expression(self, expr.left))

\* emit_binary
emit_binary(self, expr) ==
    LET opcode == binary_opcode(expr.op, expr_ty(expr.left))
        with_right(right) ==
            IF ~right.ok THEN right
            ELSE IF is_none(opcode)
            THEN Err(right.self, binary_opcode_error(expr.op))
            ELSE Ok(push(right.self, <<unwrap(opcode)>>), <<>>)
        with_left(left) ==
            IF ~left.ok THEN left
            ELSE with_right(emit_expression(left.self, expr.right))
    IN  IF expr.op \in {"And", "Or"} THEN emit_logical(self, expr)
        ELSE with_left(emit_expression(self, expr.left))

\* emit_unary
emit_unary(self, expr) ==
    LET with_operand(operand) ==
            IF ~operand.ok THEN operand
            ELSE
            CASE expr.op = "Neg" /\ expr.ty = "I32" ->
                   Ok(push(operand.self, <<65>> \o encode_i32(-1) \o <<108>>),
                      <<>>)
              [] expr.op = "Neg" /\ expr.ty = "I64" ->
                   Ok(push(operand.self, <<66>> \o encode_i64(-1) \o <<126>>),
                      <<>>)
              [] expr.op = "Neg" /\ expr.ty = "F32" ->
                   Ok(push(operand.self, <<140>>), <<>>)
              [] expr.op = "Neg" /\ expr.ty = "F64" ->
                   Ok(push(operand.self, <<154>>), <<>>)
              [] expr.op = "Neg" ->
                   Err(operand.self, "- operator only valid for numeric types")
              [] expr.op = "Not" /\ expr.ty = "Bool" ->
                   Ok(push(operand.self, <<69>>), <<>>)
              [] OTHER -> Err(operand.self, "! operator only valid for bool")
    IN  with_operand(emit_expression(self, expr.expr))

\* the argument loop of emit_call
emit_args(self, args, i) ==
    LET next(arg) ==
            IF ~arg.ok THEN arg ELSE emit_args(arg.self, args, i + 1)
    IN  IF i > Len(args) THEN Ok(self, <<>>)
        ELSE next(emit_expression(self, args[i]))

\* emit_intrinsic_call: value is TRUE when the callee is an intrinsic
emit_intrinsic_call(self, call) ==
    LET entry == intrinsic(call.callee)
    IN  IF is_none(entry) THEN Ok(self, FALSE)
        ELSE IF Len(call.args) # unwrap(entry).args
        THEN Err(self, "intrinsic expects another number of arguments")
        ELSE Ok(push(self, unwrap(entry).code), TRUE)

\* emit_call
emit_call(self, call) ==
    LET with_intrinsic(done) ==
            IF ~done.ok THEN Err(done.self, done.err)
            ELSE IF done.value THEN Ok(done.self, <<>>)
            ELSE IF ~contains_key(done.self.function_indices, call.callee)
            THEN Err(done.self, "unknown function")
            ELSE Ok(push(done.self,
                         <<16>> \o encode_u32(
                             done.self.function_indices[call.callee])),
                    <<>>)
        with_args(args) ==
            IF ~args.ok THEN args
            ELSE with_intrinsic(emit_intrinsic_call(args.self, call))
    IN  with_args(emit_args(self, call.args, 1))

\* the else arm of emit_if
emit_else(self, else_expr, has_result) ==
    IF has_result THEN emit_expression(self, else_expr)
    ELSE IF else_expr.kind = "Block" THEN emit_block(self, else_expr, "Drop")
    ELSE IF expr_ty(else_expr) # "Unit"
    THEN then_push(emit_expression(self, else_expr), <<26>>)
    ELSE emit_expression(self, else_expr)

\* emit_if
emit_if(self, if_expr) ==
    LET valtype == wasm_value_type(if_expr.ty)
        result_type == IF if_expr.ty = "Unit" THEN None
                       ELSE Some(valtype.byte)
        with_else(else_branch) ==
            IF ~else_branch.ok THEN else_branch
            ELSE Ok(end_block(else_branch.self), <<>>)
        with_then(then_branch) ==
            IF ~then_branch.ok THEN then_branch
            ELSE IF is_some(if_expr.else_branch)
            THEN with_else(emit_else(start_else(then_branch.self),
                                     unwrap(if_expr.else_branch),
                                     is_some(result_type)))
            ELSE IF is_some(result_type)
            THEN Err(then_branch.self, "if expression missing else branch")
            ELSE Ok(end_block(then_branch.self), <<>>)
        with_condition(condition) ==
            IF ~condition.ok THEN condition
            ELSE IF if_expr.ty # "Unit" /\ ~valtype.ok
            THEN Err(condition.self, valtype.err)
            ELSE with_then(emit_block(start_if(condition.self, result_type),
                                      if_expr.then_branch,
                                      IF is_some(result_type) THEN "Preserve"
                                      ELSE "Drop"))
    IN  with_condition(emit_expression(self, if_expr.condition))

\* self.loop_stack.pop()
pop_loop_context(self) ==
    [self EXCEPT !.loop_stack =
        IF Len(@) = 0 THEN @ ELSE SubSeq(@, 1, Len(@) - 1)]

\* emit_loop
emit_loop(self, loop_expr) ==
    LET result_local == IF loop_expr.ty = "Unit" THEN None
                        ELSE Some(next_local(self))
        allocated == IF loop_expr.ty = "Unit" THEN self
                     ELSE allocate_local(self, loop_expr.ty)
        block_index == Len(self.label_stack)
        loop_index == block_index + 1
        entered == [start_loop(start_block(allocated, None))
                        EXCEPT !.loop_stack =
                            Append(@, EmitLoopContext(block_index, loop_index,
                                                      result_local))]
        close(left) ==
            IF is_some(result_local)
            THEN emit_local_get(end_block(end_block(emit_br(left, loop_index))),
                                unwrap(result_local))
            ELSE end_block(end_block(emit_br(left, loop_index)))
        with_body(body_result) ==
            IF ~body_result.ok
            THEN Err(pop_loop_context(body_result.self), body_result.err)
            ELSE Ok(close(pop_loop_context(body_result.self)), <<>>)
    IN  with_body(emit_block(entered, loop_expr.body, "Drop"))

\* emit_while
emit_while(self, while_expr) ==
    LET block_index == Len(self.label_stack)
        loop_index == block_index + 1
        entered == [start_loop(start_block(self, None))
                        EXCEPT !.loop_stack =
                            Append(@, EmitLoopContext(block_index, loop_index,
                                                      None))]
        with_body(body) ==
            IF ~body.ok THEN body
            ELSE Ok(end_block(end_block(pop_loop_context(
                        emit_br(body.self, loop_index)))), <<>>)
        with_condition(condition) ==
            IF ~condition.ok THEN condition
            ELSE with_body(emit_block(
                               emit_br_if(push(condition.self, <<69>>),
                                          block_index),
                               while_expr.body, "Drop"))
    IN  with_condition(emit_expression(entered, while_expr.condition))

\* emit_expression
emit_expression(self, expr) ==
    CASE expr.kind = "Literal" -> emit_literal(self, expr)
      [] expr.kind = "Variable" -> emit_variable(self, expr)
      [] expr.kind = "Binary" -> emit_binary(self, expr)
      [] expr.kind = "Unary" -> emit_unary(self, expr)
      [] expr.kind = "Call" -> emit_call(self, expr)
      [] expr.kind = "If" -> emit_if(self, expr)
      [] expr.kind = "Block" -> emit_block(self, expr, "Preserve")
      [] expr.kind = "Loop" -> emit_loop(self, expr)
      [] expr.kind = "While" -> emit_while(self, expr)

\* emit_statement, Statement::Let
emit_let(self, stmt) ==
    LET local_index == next_local(self)
        set(value) ==
            IF ~value.ok THEN value
            ELSE IF expr_ty(stmt.value) = "Unit"
            THEN Err(value.self, "let initializer cannot be unit")
            ELSE Ok(emit_local_set(value.self, local_index), <<>>)
    IN  set(emit_expression(
                insert_binding(allocate_local(self, stmt.ty), stmt.name,
                               Binding(local_index)),
                stmt.value))

\* emit_statement, Statement::Assign
emit_assign(self, stmt) ==
    LET binding == lookup_binding(self, stmt.target)
        set(value) ==
            IF ~value.ok THEN value
            ELSE IF expr_ty(stmt.value) = "Unit"
            THEN Err(value.self, "assignment value cannot be unit")
            ELSE Ok(emit_local_set(value.self, binding.value.index), <<>>)
    IN  IF ~binding.ok THEN binding
        ELSE set(emit_expression(self, stmt.value))

\* emit_statement, Statement::Break
emit_break(self, stmt) ==
    LET labels == self.loop_stack[Len(self.loop_stack)]
        with_value(value) ==
            IF ~value.ok THEN value
            ELSE IF is_some(labels.result_local)
            THEN Ok(emit_br(emit_local_set(value.self,
                                           unwrap(labels.result_local)),
                            labels.break_index), <<>>)
            ELSE Ok(emit_br(value.self, labels.break_index), <<>>)
    IN  IF Len(self.loop_stack) = 0
        THEN Err(self, "break outside of loop")
        ELSE IF is_some(stmt.value)
        THEN with_value(emit_expression(self, unwrap(stmt.value)))
        ELSE IF is_some(labels.result_local)
        THEN Err(self, "break in this loop must provide a value")
        ELSE Ok(emit_br(self, labels.break_index), <<>>)

\* emit_statement
emit_statement(self, statement) ==
    CASE statement.kind = "Let" -> emit_let(self, statement)
      [] statement.kind = "Assign" -> emit_assign(self, statement)
      [] statement.kind = "Return" ->
           IF is_some(statement.value)
           THEN then_push(emit_expression(self, unwrap(statement.value)),
                          <<15>>)
           ELSE Ok(push(self, <<15>>), <<>>)
      [] statement.kind = "Expr" ->
           IF expr_ty(statement.expr) # "Unit"
           THEN then_push(emit_expression(self, statement.expr), <<26>>)
           ELSE emit_expression(self, statement.expr)
      [] statement.kind = "Break" -> emit_break(self, statement)
      [] statement.kind = "Continue" ->
           IF Len(self.loop_stack) = 0
           THEN Err(self, "continue outside of loop")
           ELSE Ok(emit_br(self,
                           self.loop_stack[Len(self.loop_stack)].continue_index),
                   <<>>)

\* the statement loop of emit_block
emit_statements(self, statements, i) ==
    LET next(done) ==
            IF ~done.ok THEN done
            ELSE emit_statements(done.self, statements, i + 1)
    IN  IF i > Len(statements) THEN Ok(self, <<>>)
        ELSE next(emit_statement(self, statements[i]))

\* the tail of emit_block under its tail mode
emit_tail(self, block, tail_mode) ==
    IF is_some(block.tail)
    THEN IF tail_mode = "Drop" /\ expr_ty(unwrap(block.tail)) # "Unit"
         THEN then_push(emit_expression(self, unwrap(block.tail)), <<26>>)
         ELSE emit_expression(self, unwrap(block.tail))
    ELSE IF tail_mode = "Preserve"
         THEN Err(self, "block must evaluate to a value")
         ELSE Ok(self, <<>>)

\* the result of a block's closure with the block's scope popped
scope_popped(result) == [result EXCEPT !.self = pop_scope(@)]

\* emit_block: the scope is popped whatever the result
emit_block(self, block, tail_mode) ==
    LET with_statements(statements) ==
            IF ~statements.ok THEN statements
            ELSE emit_tail(statements.self, block, tail_mode)
    IN  scope_popped(with_statements(
            emit_statements(push_scope(self), block.statements, 1)))

\* the parameter loop of emit_function
RECURSIVE bind_params(_, _, _)
bind_params(self, params, i) ==
    IF i > Len(params) THEN self
    ELSE bind_params(insert_binding(self, params[i].name, Binding(i - 1)),
                     params, i + 1)

\* emit_function: value is the FunctionBody
emit_function(self, func) ==
    LET tail_mode == IF func.return_type = "Unit" THEN "Drop" ELSE "Preserve"
        with_body(body) ==
            IF ~body.ok THEN body
            ELSE Ok(pop_scope(body.self),
                    [locals |-> body.self.locals,
                     code |-> body.self.instructions])
    IN  with_body(emit_block(bind_params(push_scope(self), func.params, 1),
                             func.body, tail_mode))

(***************************************************************************)
(* codegen/wasm.rs: WasmGenerator::emit_program                            *)
(***************************************************************************)
FuncType(params, result) == [params |-> params, result |-> result]

\* the index of the i-th function if it came from the iteration of a HashMap
hash_index(functions, i) == hash_order[i] - 1

\* the index that enumerate() pairs with the i-th function in source order
enumerate_index(functions, i) == i - 1

\* the parameter loop of the first loop of emit_program: [ok, err, params]
RECURSIVE wasm_param_types(_, _, _)
wasm_param_types(params, i, acc) ==
    IF i > Len(params) THEN [ok |-> TRUE, err |-> "", params |-> acc]
    ELSE LET valtype == wasm_value_type(params[i].ty)
         IN  IF ~valtype.ok
             THEN [ok |-> FALSE, err |-> valtype.err, params |-> acc]
             ELSE wasm_param_types(params, i + 1, Append(acc, valtype.byte))

\* one iteration of the first loop of emit_program: [ok, err, func_type]
function_type(function) ==
    LET params == wasm_param_types(function.params, 1, <<>>)
        result == wasm_value_type(function.return_type)
    IN  IF ~params.ok
        THEN [ok |-> FALSE, err |-> params.err, func_type |-> <<>>]
        ELSE IF function.return_type = "Unit"
        THEN [ok |-> TRUE, err |-> "",
              func_type |-> FuncType(params.params, None)]
        ELSE IF ~result.ok
        THEN [ok |-> FALSE, err |-> result.err, func_type |-> <<>>]
        ELSE [ok |-> TRUE, err |-> "",
              func_type |-> FuncType(params.params, Some(result.byte))]

\* the type section: one entry per function
RECURSIVE type_entries(_, _)
type_entries(types, i) ==
    IF i > Len(types) THEN <<>>
    ELSE <<96>> \o encode_u32(Len(types[i].params)) \o types[i].params
         \o (IF is_some(types[i].result) THEN <<1, unwrap(types[i].result)>>
             ELSE <<0>>)
         \o type_entries(types, i + 1)
type_section(types) == encode_u32(Len(types)) \o type_entries(types, 1)

\* the function section: function i has type i
RECURSIVE function_entries(_, _)
function_entries(n, i) ==
    IF i >= n THEN <<>> ELSE encode_u32(i) \o function_entries(n, i + 1)
function_section(n) == encode_u32(n) \o function_entries(n, 0)

\* the memory section: one memory, no maximum, one initial page
memory_section == encode_u32(1) \o <<0>> \o encode_u32(1)

\* the export section: the memory, then every function in source order
export_entry(name, kind, export_index) ==
    encode_name(name) \o <<kind>> \o encode_u32(export_index)
RECURSIVE function_exports(_, _)
function_exports(functions, i) ==
    IF i > Len(functions) THEN <<>>
    ELSE export_entry(functions[i].name, 0, enumerate_index(functions, i))
         \o function_exports(functions, i + 1)
\* an export section that lists the functions before the memory
export_section_memory_last(functions) ==
    encode_u32(Len(functions) + 1) \o function_exports(functions, 1)
    \o export_entry("memory", 2, 0)
export_section(functions) ==
    encode_u32(Len(functions) + 1) \o export_entry("memory", 2, 0)
    \o function_exports(functions, 1)

\* the grouping of a body's locals: [ok, err, groups], a group is <<count, ty>>
RECURSIVE grouped_locals(_, _, _)
grouped_locals(locals, i, acc) ==
    IF i > Len(locals) THEN [ok |-> TRUE, err |-> "", groups |-> acc]
    ELSE
    LET valtype == wasm_value_type_for_local(locals[i])
        n == Len(acc)
    IN  IF ~valtype.ok THEN [ok |-> FALSE, err |-> valtype.err, groups |-> acc]
        ELSE IF n > 0 /\ acc[n][2] = valtype.byte
        THEN grouped_locals(locals, i + 1,
                            [acc EXCEPT ![n] = <<acc[n][1] + 1, acc[n][2]>>])
        ELSE grouped_locals(locals, i + 1, Append(acc, <<1, valtype.byte>>))

RECURSIVE group_entries(_, _)
group_entries(groups, i) ==
    IF i > Len(groups) THEN <<>>
    ELSE encode_u32(groups[i][1]) \o <<groups[i][2]>>
         \o group_entries(groups, i + 1)

\* one body of the code section: [ok, err, bytes]
body_entry(body) ==
    LET groups == grouped_locals(body.locals, 1, <<>>)
        body_buf == encode_u32(Len(groups.groups))
                    \o group_entries(groups.groups, 1) \o body.code \o <<11>>
    IN  IF ~groups.ok THEN [ok |-> FALSE, err |-> groups.err, bytes |-> <<>>]
        ELSE [ok |-> TRUE, err |-> "",
              bytes |-> encode_u32(Len(body_buf)) \o body_buf]

RECURSIVE body_entries(_, _)
body_entries(function_bodies, i) ==
    IF i > Len(function_bodies) THEN [ok |-> TRUE, err |-> "", bytes |-> <<>>]
    ELSE
    LET entry == body_entry(function_bodies[i])
        rest == body_entries(function_bodies, i + 1)
    IN  IF ~entry.ok THEN entry
        ELSE IF ~rest.ok THEN rest
        ELSE [ok |-> TRUE, err |-> "", bytes |-> entry.bytes \o rest.bytes]

\* the module of emit_program from func_types and bodies: [ok, err, bytes]
assemble(functions, types, function_bodies) ==
    LET header == <<0, 97, 115, 109, 1, 0, 0, 0>>
        code == body_entries(function_bodies, 1)
        sections ==
            push_section(
              push_section(
                push_section(
                  push_section(
                    push_section(header, 1, type_section(types)),
                    3, function_section(Len(functions))),
                  5, memory_section),
                7, export_section(functions)),
              10, encode_u32(Len(function_bodies)) \o code.bytes)
    IN  IF ~code.ok THEN code
        ELSE [ok |-> TRUE, err |-> "", bytes |-> sections]

(***************************************************************************)
(* TypeChecker::check, first loop: global collection                       *)
(***************************************************************************)
\* param_types: type_from_type_expr over the parameters, first error wins
RECURSIVE param_types(_, _, _)
param_types(params, i, acc) ==
    IF i > Len(params) THEN [ok |-> TRUE, err |-> "", tys |-> acc]
    ELSE LET ty == type_from_type_expr(params[i].ty)
         IN  IF ~ty.ok THEN [ok |-> FALSE, err |-> ty.err, tys |-> acc]
             ELSE param_types(params, i + 1, Append(acc, ty.ty))


\* the iteration of the first loop of check without its tests of main
collect_signature_any_main(self, found, function) ==
    LET params == param_types(function.params, 1, <<>>)
        return_type == type_from_type_expr(function.return_type)
    IN  IF ~params.ok THEN Err(self, params.err)
        ELSE IF ~return_type.ok THEN Err(self, return_type.err)
        ELSE IF contains_key(self.functions, function.name)
        THEN Err(self, "function already defined")
        ELSE Ok([self EXCEPT !.functions =
                    insert(@, function.name,
                           FunctionSignature(params.tys, return_type.ty))],
                found \/ function.name = "main")

\* the iteration of the first loop of check without its test of the table:
\* a later function takes the place of an earlier one of the same name
collect_signature_overwrites(self, found, function) ==
    LET params == param_types(function.params, 1, <<>>)
        return_type == type_from_type_expr(function.return_type)
    IN  IF ~params.ok THEN Err(self, params.err)
        ELSE IF ~return_type.ok THEN Err(self, return_type.err)
        ELSE IF function.name = "main" /\ Len(params.tys) # 0
        THEN Err(self, "main cannot take parameters")
        ELSE IF function.name = "main" /\ return_type.ty # "I32"
        THEN Err(self, "main must return i32")
        ELSE Ok([self EXCEPT !.functions =
                    insert(@, function.name,
                           FunctionSignature(params.tys, return_type.ty))],
                found \/ function.name = "main")

\* one iteration of the first loop of check; value is the new main_found
collect_signature(self, found, function) ==
    LET params == param_types(function.params, 1, <<>>)
        return_type == type_from_type_expr(function.return_type)
    IN  IF ~params.ok THEN Err(self, params.err)
        ELSE IF ~return_type.ok THEN Err(self, return_type.err)
        ELSE IF function.name = "main" /\ Len(params.tys) # 0
        THEN Err(self, "main cannot take parameters")
        ELSE IF function.name = "main" /\ return_type.ty # "I32"
        THEN Err(self, "main must return i32")
        ELSE IF contains_key(self.functions, function.name)
        THEN Err(self, "function already defined")
        ELSE Ok([self EXCEPT !.functions =
                    insert(@, function.name,
                           FunctionSignature(params.tys, return_type.ty))],
                found \/ function.name = "main")

\* global collection of one constant: its name joins the table of the
\* top-level names unless a constant or a function already has it
collect_constant(table, functions, const) ==
    IF const.name \in table \/ contains_key(functions, const.name)
    THEN [ok |-> FALSE, err |-> "duplicate definition", table |-> table]
    ELSE [ok |-> TRUE, err |-> "", table |-> table \cup {const.name}]

\* a function may not take the name of a constant
constant_conflict(table, function) == function.name \in table

(***************************************************************************)
(* The arithmetic of the target on i32.                                    *)
(***************************************************************************)
\* i32 arithmetic in two's complement, computed inside the 32 bits
wrapping_add(a, b) ==
    IF a > 0 /\ b > 0 /\ a > I32_MAX - b THEN (a + I32_MIN) + (b + I32_MIN)
    ELSE IF a < 0 /\ b < 0 /\ a < I32_MIN - b
    THEN (a - I32_MIN) + (b - I32_MIN)
    ELSE a + b
wrapping_neg(a) == IF a = I32_MIN THEN a ELSE 0 - a
wrapping_sub(a, b) ==
    IF b = I32_MIN THEN wrapping_add(a, I32_MIN)
    ELSE wrapping_add(a, 0 - b)
\* the product from the 16-bit halves of the factors: the low half of a
\* is split once more, so that no partial product leaves the 32 bits
wrapping_mul(a, b) ==
    LET al == a % 65536
        ah == a \div 65536
        bl == b % 65536
        bh == b \div 65536
        low == (al % 256) * bl
        mid == (al \div 256) * bl
        mid_shifted == IF mid >= 8388608 THEN (mid - 16777216) * 256
                       ELSE mid * 256
        cross == (((ah * bl) % 65536) + ((al * bh) % 65536)) % 65536
        high == IF cross >= 32768 THEN (cross - 65536) * 65536
                ELSE cross * 65536
    IN  wrapping_add(wrapping_add(low, mid_shifted), high)
magnitude(a) == IF a < 0 THEN 0 - a ELSE a
\* i32.div_s traps where divides is FALSE, and truncates elsewhere
divides(a, b) == b # 0 /\ ~(a = I32_MIN /\ b = -1)
div_s(a, b) ==
    IF b = I32_MIN THEN (IF a = I32_MIN THEN 1 ELSE 0)
    ELSE IF a = I32_MIN /\ b = -1 THEN I32_MIN
    ELSE IF b = 1 THEN a
    ELSE IF a = I32_MIN
    THEN LET q == (I32_MAX \div magnitude(b))
                  + (IF I32_MAX % magnitude(b) = magnitude(b) - 1
                     THEN 1 ELSE 0)
         IN  IF b > 0 THEN 0 - q ELSE q
    ELSE LET q == magnitude(a) \div magnitude(b)
         IN  IF (a < 0) = (b < 0) THEN q ELSE 0 - q
\* i32.rem_s traps on a zero divisor only
rem_s(a, b) ==
    IF a = I32_MIN /\ b = -1 THEN 0
    ELSE wrapping_sub(a, wrapping_mul(div_s(a, b), b))
RECURSIVE bit_and(_, _)
bit_and(a, b) ==
    IF a = 0 \/ b = 0 THEN 0
    ELSE IF a = -1 THEN b
    ELSE IF b = -1 THEN a
    ELSE (a % 2) * (b % 2) + 2 * bit_and(a \div 2, b \div 2)
RECURSIVE bit_or(_, _)
bit_or(a, b) ==
    IF a = -1 \/ b = -1 THEN -1
    ELSE IF a = 0 THEN b
    ELSE IF b = 0 THEN a
    ELSE (IF a % 2 = 1 \/ b % 2 = 1 THEN 1 ELSE 0)
         + 2 * bit_or(a \div 2, b \div 2)
RECURSIVE bit_xor(_, _)
bit_xor(a, b) ==
    IF a = 0 THEN b
    ELSE IF b = 0 THEN a
    ELSE IF a = -1 /\ b = -1 THEN 0
    ELSE (IF a % 2 = b % 2 THEN 0 ELSE 1)
         + 2 * bit_xor(a \div 2, b \div 2)
RECURSIVE doubled(_, _)
doubled(a, times) ==
    IF times = 0 THEN a ELSE doubled(wrapping_add(a, a), times - 1)
RECURSIVE halved(_, _)
halved(a, times) == IF times = 0 THEN a ELSE halved(a \div 2, times - 1)
\* the shifts take their count modulo 32
shl(a, n) == doubled(a, n % 32)
shr_s(a, n) == halved(a, n % 32)

(***************************************************************************)
(* The simplification of the typed tree before emission: a bottom-up       *)
(* rewrite by constant folding, integer identities, self-operations and    *)
(* boolean simplification against constants.                               *)
(***************************************************************************)
IntLiteral(value) == HLiteral("Int", value, "I32")
BoolLiteral(value) == HLiteral("Bool", IF value THEN 1 ELSE 0, "Bool")
is_int(e, value) ==
    e.kind = "Literal" /\ e.lit = "Int" /\ e.ty = "I32" /\ e.val = value
is_bool(e, value) ==
    e.kind = "Literal" /\ e.lit = "Bool" /\ e.val = (IF value THEN 1 ELSE 0)
foldable(e) ==
    e.kind = "Literal" /\ (e.lit = "Bool" \/ (e.lit = "Int" /\ e.ty = "I32"))

\* calls, assignments, blocks and loops may have side effects; variables,
\* literals and operators over operands without side effects have none
RECURSIVE side_effect_free(_)
side_effect_free(e) ==
    CASE e.kind \in {"Literal", "Variable"} -> TRUE
      [] e.kind = "Binary" ->
           side_effect_free(e.left) /\ side_effect_free(e.right)
      [] e.kind = "Unary" -> side_effect_free(e.expr)
      [] OTHER -> FALSE

\* the operand of a self-operation: a variable, a parameter or a literal
simple_operand(e) == e.kind \in {"Literal", "Variable"}

\* folding of an operator on two literals; a zero divisor is left as it is
fold_binary(e) ==
    LET a == e.left.val
        b == e.right.val
    IN  CASE e.op \in {"Div", "Rem"} /\ b = 0 -> e
          [] e.op = "Add" -> IntLiteral(wrapping_add(a, b))
          [] e.op = "Sub" -> IntLiteral(wrapping_sub(a, b))
          [] e.op = "Mul" -> IntLiteral(wrapping_mul(a, b))
          [] e.op = "Div" /\ b # 0 -> IntLiteral(div_s(a, b))
          [] e.op = "Rem" /\ b # 0 -> IntLiteral(rem_s(a, b))
          [] e.op = "BitAnd" -> IntLiteral(bit_and(a, b))
          [] e.op = "BitOr" -> IntLiteral(bit_or(a, b))
          [] e.op = "BitXor" -> IntLiteral(bit_xor(a, b))
          [] e.op = "Shl" -> IntLiteral(shl(a, b))
          [] e.op = "Shr" -> IntLiteral(shr_s(a, b))
          [] e.op = "Eq" -> BoolLiteral(a = b)
          [] e.op = "Ne" -> BoolLiteral(a # b)
          [] e.op = "Lt" -> BoolLiteral(a < b)
          [] e.op = "Le" -> BoolLiteral(a <= b)
          [] e.op = "Gt" -> BoolLiteral(a > b)
          [] e.op = "Ge" -> BoolLiteral(a >= b)
          [] e.op = "And" -> BoolLiteral(a # 0 /\ b # 0)
          [] e.op = "Or" -> BoolLiteral(a # 0 \/ b # 0)

\* the integer identities; None where none applies
integer_identity(e) ==
    LET l == e.left
        r == e.right
    IN  CASE e.op = "Add" /\ is_int(r, 0) -> Some(l)
          [] e.op = "Add" /\ is_int(l, 0) -> Some(r)
          [] e.op = "Sub" /\ is_int(r, 0) -> Some(l)
          [] e.op = "Mul" /\ is_int(r, 1) -> Some(l)
          [] e.op = "Mul" /\ is_int(l, 1) -> Some(r)
          [] e.op = "Mul" /\ is_int(r, 0) /\ side_effect_free(l) -> Some(r)
          [] e.op = "Mul" /\ is_int(l, 0) /\ side_effect_free(r) -> Some(l)
          [] e.op = "Div" /\ is_int(r, 1) -> Some(l)
          [] e.op = "BitAnd" /\ is_int(r, 0) /\ side_effect_free(l) -> Some(r)
          [] e.op = "BitAnd" /\ is_int(l, 0) /\ side_effect_free(r) -> Some(l)
          [] e.op = "BitAnd" /\ is_int(r, -1) -> Some(l)
          [] e.op = "BitAnd" /\ is_int(l, -1) -> Some(r)
          [] e.op = "BitOr" /\ is_int(r, 0) -> Some(l)
          [] e.op = "BitOr" /\ is_int(l, 0) -> Some(r)
          [] e.op = "BitOr" /\ is_int(r, -1) /\ side_effect_free(l) -> Some(r)
          [] e.op = "BitOr" /\ is_int(l, -1) /\ side_effect_free(r) -> Some(l)
          [] e.op \in {"Shl", "Shr"} /\ is_int(r, 0) -> Some(l)
          [] e.op \in {"Shl", "Shr"} /\ is_int(l, 0) /\ side_effect_free(r) ->
               Some(l)
          [] OTHER -> None

\* the self-operations on a variable, a parameter or a literal
self_operation(e) ==
    IF ~(simple_operand(e.left) /\ e.left = e.right
         /\ e.left.ty \in {"I32", "Bool"})
    THEN None
    ELSE CASE e.op \in {"Eq", "Le", "Ge"} -> Some(BoolLiteral(TRUE))
           [] e.op \in {"Ne", "Lt", "Gt"} -> Some(BoolLiteral(FALSE))
           [] e.op = "Sub" -> Some(IntLiteral(0))
           [] e.op \in {"BitAnd", "BitOr", "And", "Or"} -> Some(e.left)
           [] OTHER -> None

\* the boolean simplifications against a constant
boolean_constant(e) ==
    LET l == e.left
        r == e.right
        negated == HUnary("Not", l, "Bool")
    IN  CASE e.op = "Eq" /\ is_bool(r, TRUE) -> Some(l)
          [] e.op = "Eq" /\ is_bool(r, FALSE) -> Some(negated)
          [] e.op = "Ne" /\ is_bool(r, TRUE) -> Some(negated)
          [] e.op = "Ne" /\ is_bool(r, FALSE) -> Some(l)
          [] e.op = "And" /\ is_bool(r, TRUE) -> Some(l)
          [] e.op = "And" /\ is_bool(r, FALSE) /\ side_effect_free(l) -> Some(r)
          [] e.op = "Or" /\ is_bool(r, FALSE) -> Some(l)
          [] e.op = "Or" /\ is_bool(r, TRUE) /\ side_effect_free(l) -> Some(r)
          [] OTHER -> None

\* the rewrite of an operator whose operands are rewritten already
rewrite_binary(e) ==
    IF foldable(e.left) /\ foldable(e.right) THEN fold_binary(e)
    ELSE IF is_some(integer_identity(e)) THEN unwrap(integer_identity(e))
    ELSE IF is_some(self_operation(e)) THEN unwrap(self_operation(e))
    ELSE IF is_some(boolean_constant(e)) THEN unwrap(boolean_constant(e))
    ELSE e

rewrite_unary(e) ==
    IF ~foldable(e.expr) THEN e
    ELSE IF e.op = "Not" THEN BoolLiteral(e.expr.val = 0)
    ELSE IntLiteral(wrapping_neg(e.expr.val))

RECURSIVE simplify(_)
simplify_option(o) == IF is_some(o) THEN Some(simplify(unwrap(o))) ELSE o
simplify_statement(s) ==
    CASE s.kind \in {"Let", "Assign"} -> [s EXCEPT !.value = simplify(@)]
      [] s.kind \in {"Return", "Break"} ->
           [s EXCEPT !.value = simplify_option(@)]
      [] s.kind = "Expr" -> [s EXCEPT !.expr = simplify(@)]
      [] OTHER -> s
simplify_block(b) ==
    [b EXCEPT !.statements = [i \in DOMAIN @ |-> simplify_statement(@[i])],
              !.tail = simplify_option(@)]
\* the bottom-up rewrite of an expression
simplify(e) ==
    CASE e.kind = "Binary" ->
           rewrite_binary([e EXCEPT !.left = simplify(@),
                                    !.right = simplify(@)])
      [] e.kind = "Unary" -> rewrite_unary([e EXCEPT !.expr = simplify(@)])
      [] e.kind = "Call" ->
           [e EXCEPT !.args = [i \in DOMAIN @ |-> simplify(@[i])]]
      [] e.kind = "If" ->
           [e EXCEPT !.condition = simplify(@),
                     !.then_branch = simplify_block(@),
                     !.else_branch = simplify_option(@)]
      [] e.kind = "Block" -> simplify_block(e)
      [] e.kind = "Loop" -> [e EXCEPT !.body = simplify_block(@)]
      [] e.kind = "While" ->
           [e EXCEPT !.condition = simplify(@), !.body = simplify_block(@)]
      [] OTHER -> e
simplify_function(function) == [function EXCEPT !.body = simplify_block(@)]

(***************************************************************************)
(* The programs under compilation.                                         *)
(***************************************************************************)
Program(consts, functions) == [constants |-> consts, functions |-> functions]
Const(name, ty) == [name |-> name, ty |-> ty]

i32 == Named("i32")
Zero == Literal("Int", 0, "None")
One == Literal("Int", 1, "None")
True == Literal("Bool", 1, "None")
False == Literal("Bool", 0, "None")
Unit == BlockExpr(Block(<<>>, None))
Store == Call("store_u8", <<Zero, One>>)
Yields(expr) == Block(<<>>, Some(expr))
Main(body) == Function("main", <<>>, i32, body)

\* sequences of 1..n elements of a set
SeqsUpTo(S, n) == UNION {[1..k -> S] : k \in 1..n}

\* declarations for the programs about signatures and calls
GoodDecls ==
    {Main(Yields(Zero)),
     Main(Yields(Call("helper", <<>>))),
     Main(Yields(Call("helper", <<One>>))),
     Function("helper", <<>>, i32, Yields(Zero)),
     Function("helper", <<>>, i32, Yields(Call("main", <<>>))),
     Function("helper", <<Param("a", i32)>>, i32, Yields(Variable("a"))),
     Function("other", <<>>, i32, Yields(Call("helper", <<>>)))}
Decls ==
    GoodDecls \cup
    {Function("main", <<Param("a", i32)>>, i32, Yields(Zero)),
     Function("main", <<>>, UnitTy, Block(<<>>, None)),
     Main(Yields(Literal("Float", 3, "None"))),
     Function("helper", <<>>, UnitTy, Block(<<>>, None)),
     Function("helper", <<>>, UnitTy, Yields(Zero)),
     Function("helper", <<>>, i32, Yields(True)),
     Function("helper", <<Param("a", UnitTy)>>, i32, Yields(Zero)),
     Function("helper", <<>>, Named("u32"), Yields(Zero)),
     Function("load_u8", <<>>, i32, Yields(Zero))}

SignaturePrograms == {Program(<<>>, fs) : fs \in SeqsUpTo(Decls, MaxFunctions)}
TwicePrograms ==
    {Program(cs, fs) : cs \in {<<>>, <<Const("VALUE", i32)>>},
                       fs \in SeqsUpTo(GoodDecls, MaxFunctions)}

\* programs with constants
ConstantPrograms ==
    {Program(cs, fs) :
        cs \in {<<Const("helper", i32)>>, <<Const("VALUE", i32)>>,
                <<Const("VALUE", i32), Const("VALUE", i32)>>,
                <<Const("load_u8", i32)>>},
        fs \in {<<Main(Yields(Zero))>>,
                <<Function("helper", <<>>, i32, Yields(Zero)), Main(Yields(Zero))>>,
                <<Function("helper", <<>>, i32, Yields(True)), Main(Yields(Zero))>>,
                <<Main(Yields(True)),
                  Function("helper", <<>>, i32, Yields(Zero))>>}}

\* programs about control flow: break and continue statements in the
\* innermost of up to two enclosing constructs
Leaves ==
    {Break(None), Break(Some(One)), Break(Some(True)), Break(Some(Store)),
     Continue}
Wrap(kind, statements) ==
    CASE kind = "loop" -> ExprStmt(Loop(Block(statements, None)))
      [] kind = "loop_break" ->
           ExprStmt(Loop(Block(statements \o <<Break(None)>>, None)))
      [] kind = "loop_break_one" ->
           ExprStmt(Loop(Block(statements \o <<Break(Some(One))>>, None)))
      [] kind = "while" -> ExprStmt(While(True, Block(statements, None)))
      [] kind = "while_condition" ->
           ExprStmt(While(BlockExpr(Block(statements, Some(True))),
                          Block(<<>>, None)))
      [] kind = "if" -> ExprStmt(If(True, Block(statements, None), None))
      [] kind = "block" -> ExprStmt(BlockExpr(Block(statements, None)))
Wrappers ==
    {"loop", "loop_break", "loop_break_one", "while", "while_condition", "if",
     "block"}
Nests ==
    LET leaves == SeqsUpTo(Leaves, MaxStmts)
    IN  leaves
        \cup {<<Wrap(w, l)>> : w \in Wrappers, l \in leaves}
        \cup {<<Wrap(v, <<Wrap(w, l)>>)>> : v \in Wrappers, w \in Wrappers,
                                            l \in leaves}
Looping == Wrap("loop", <<Break(None)>>)
ControlPrograms ==
    {Program(<<>>, <<Main(Block(nest, Some(Zero)))>>) : nest \in Nests}
    \cup {Program(<<>>, <<Main(Block(<<Looping>> \o nest, Some(Zero)))>>) :
             nest \in Nests}
    \cup {Program(<<>>, <<Function("helper", <<>>, i32,
                                   Block(<<Looping>>, Some(Zero))),
                          Main(Block(nest, Some(Zero)))>>) : nest \in Nests}

\* programs about binary operators: one operand of every type on each side
Operands ==
    {One, Literal("Int", 2, "I64"), Literal("Float", 3, "None"),
     Literal("Float", 3, "F64"), True, Unit}
BinaryPrograms ==
    {Program(<<>>, <<Main(Block(<<ExprStmt(Binary(op, l, r))>>, Some(Zero)))>>) :
        op \in BinaryOp, l \in Operands, r \in Operands}

\* programs about values of type unit and about bindings
x_is(ty, value) == Let("x", TRUE, ty, value)
DataPrograms ==
    {Program(<<>>, <<Main(Block(statements, Some(tail)))>>) :
        statements \in
            {<<x_is(UnitTy, Unit)>>, <<x_is(UnitTy, Store)>>,
             <<x_is(i32, One)>>, <<x_is(i32, One), Assign("x", Zero)>>,
             <<x_is(i32, Unit)>>, <<ExprStmt(Unit)>>, <<ExprStmt(Store)>>,
             <<x_is(i32, One), Return(Some(Variable("x")))>>,
             <<Return(None)>>,
             <<ExprStmt(Unary("Neg", One))>>, <<ExprStmt(Unary("Not", One))>>,
             <<ExprStmt(Group(Call("load_u8", <<Zero>>)))>>,
             <<ExprStmt(If(True, Yields(One), Some(Zero)))>>,
             <<ExprStmt(If(True, Yields(One), None))>>,
             <<ExprStmt(Loop(Block(<<Break(None)>>, Some(One))))>>,
             <<ExprStmt(While(False, Yields(One)))>>,
             <<x_is(Named("i64"), One)>>,
             <<x_is(Named("i64"), Literal("Int", 2, "I64"))>>},
        tail \in {Zero, Variable("x")}}

\* programs about the logical operators: operands that store to a
\* byte of their own before they yield their value, the value observed
\* by an if
Eff(addr, value) ==
    BlockExpr(Block(<<ExprStmt(Call("store_u8",
                                    <<Literal("Int", addr, "None"), One>>))>>,
                    Some(value)))
Observe(condition) ==
    Main(Yields(If(condition, Yields(One), Some(BlockExpr(Yields(Zero))))))
LogicalOperands(addr) == {True, False, Eff(addr, True), Eff(addr, False)}
LogicalPrograms ==
    {Program(<<>>, <<Observe(Binary(op, a, b))>>) :
        op \in {"And", "Or"},
        a \in LogicalOperands(0)
              \cup {Binary(inner, Eff(0, x), Eff(2, y)) :
                       inner \in {"And", "Or"}, x \in {True, False},
                       y \in {True, False}},
        b \in LogicalOperands(1)}


\* programs for the simplification: one operator over operands that are
\* parameters, literals, stores, and operators that trap or fold to i32::MIN
Value == Variable("value")
Flag == Variable("flag")
Pass(ty, e) ==
    Function("f", <<Param("value", i32), Param("flag", Named("bool"))>>, ty,
             Yields(e))
IntOperands ==
    {Value, Zero, One, Unary("Neg", One), Literal("Int", I32_MAX, "None"),
     Eff(0, Value), Binary("Div", Value, Zero),
     Binary("Sub", Unary("Neg", Literal("Int", I32_MAX, "None")), One)}
BoolOperands ==
    {Flag, True, False, Eff(1, Flag), Binary("Eq", Binary("Div", One, Value), One)}
PassPrograms ==
    {Program(<<>>, <<Pass(i32, Binary(op, a, b))>>) :
        op \in {"Add", "Sub", "Mul", "Div", "Rem", "BitAnd", "BitOr", "BitXor",
                "Shl", "Shr"},
        a \in IntOperands, b \in IntOperands}
    \cup {Program(<<>>, <<Pass(Named("bool"), Binary(op, a, b))>>) :
             op \in {"Eq", "Ne", "Lt", "Le", "Gt", "Ge"},
             a \in IntOperands, b \in IntOperands}
    \cup {Program(<<>>, <<Pass(Named("bool"), Binary(op, a, b))>>) :
             op \in {"And", "Or", "Eq", "Ne"},
             a \in BoolOperands, b \in BoolOperands}
    \cup {Program(<<>>, <<Pass(i32, Unary("Neg", a))>>) : a \in IntOperands}
    \cup {Program(<<>>, <<Pass(Named("bool"), Unary("Not", a))>>) :
             a \in BoolOperands}


\* programs about the scopes of locals: bindings of x and y in the body of
\* main and in blocks nested in it, and uses of both
Bind(name, value) == Let(name, FALSE, i32, value)
Successor(name) == Binary("Add", Variable(name), One)
Nested(statements, tail) == BlockExpr(Block(statements, Some(tail)))
ScopeStatements ==
    {Bind("x", One), Bind("y", Variable("x")),
     ExprStmt(Nested(<<Bind("x", Successor("x"))>>, Variable("x"))),
     ExprStmt(Nested(<<Bind("y", One)>>, Variable("y")))}
ScopeTails ==
    {Variable("x"), Variable("y"),
     Nested(<<Bind("x", Successor("x"))>>, Variable("x")),
     Nested(<<Bind("y", One)>>, Successor("y"))}
ScopePrograms ==
    {Program(<<>>, <<Main(Block(statements, Some(tail)))>>) :
        statements \in SeqsUpTo(ScopeStatements, MaxStmts),
        tail \in ScopeTails}


\* programs about jumps under labels: a break or continue under two ifs,
\* in the right operand of a logical operator, and in the branches of an
\* if whose condition is a logical operator, in a loop or while that may
\* come after another loop and may lie in an outer loop
Then(statements) == ExprStmt(If(True, Block(statements, None), None))
Having(leaf) == BlockExpr(Block(<<leaf>>, Some(True)))
Under(leaf) ==
    {Then(<<Then(<<leaf>>)>>),
     ExprStmt(Binary("And", True, Having(leaf))),
     ExprStmt(Binary("Or", False, Binary("And", True, Having(leaf)))),
     ExprStmt(If(Binary("Or", False, Having(leaf)), Block(<<leaf>>, None),
                 Some(BlockExpr(Block(<<Then(<<leaf>>)>>, None)))))}
JumpLoops ==
    {Wrap(kind, before \o <<under>>) :
        kind \in {"loop", "loop_break", "while"},
        before \in {<<>>, <<Looping>>},
        under \in Under(Break(None)) \cup Under(Continue)}
JumpPrograms ==
    {Program(<<>>, <<Main(Block(<<nest>>, Some(Zero)))>>) :
        nest \in JumpLoops \cup {Wrap("loop", <<inner>>) : inner \in JumpLoops}
                 \cup {Wrap("while", <<Then(<<inner>>)>>) : inner \in JumpLoops}}

Programs ==
    SignaturePrograms \cup ConstantPrograms \cup ControlPrograms
    \cup BinaryPrograms \cup DataPrograms \cup LogicalPrograms
    \cup ScopePrograms \cup JumpPrograms

\* the orders in which a HashMap of n entries may iterate
Orders(n) == {f \in [1..n -> 1..n] : \A i, j \in 1..n : f[i] = f[j] => i = j}

(***************************************************************************)
(* lexer.rs: Lexer.  A source is the sequence of its characters; a         *)
(* position is a number of bytes, as in str::char_indices; an index counts *)
(* characters from 1.                                                      *)
(***************************************************************************)
MaxChars == 3
MaxCalls == 5

\* TokenKind
Token(kind) == [kind |-> kind]
Identifier(name) == [kind |-> "Identifier", name |-> name]
IntToken(value, suffix) ==
    [kind |-> "IntLiteral", value |-> value, suffix |-> suffix]

Span(start, end) == [start |-> start, end |-> end]
LexToken(kind, span) == [kind |-> kind, span |-> span]
LexerError(message, span) == [message |-> message, span |-> span]
Lexer_new == [index |-> 1, finished |-> FALSE]

AsciiLower ==
    {"a", "b", "c", "d", "e", "f", "g", "h", "i", "j", "k", "l", "m", "n",
     "o", "p", "q", "r", "s", "t", "u", "v", "w", "x", "y", "z"}
AsciiUpper ==
    {"A", "B", "C", "D", "E", "F", "G", "H", "I", "J", "K", "L", "M", "N",
     "O", "P", "Q", "R", "S", "T", "U", "V", "W", "X", "Y", "Z"}
AsciiDigits == {"0", "1", "2", "3", "4", "5", "6", "7", "8", "9"}
\* the letters outside ASCII that the sources use, two bytes each in UTF-8
WideLetters == {"é"}

\* char::len_utf8, is_whitespace, is_ascii_digit, is_ascii_alphabetic,
\* is_ascii_alphanumeric, is_alphanumeric
len_utf8(ch) == IF ch \in WideLetters THEN 2 ELSE 1
is_whitespace(ch) == ch \in {" ", "\n", "\t", "\r"}
is_ascii_digit(ch) == ch \in AsciiDigits
is_ascii_alphabetic(ch) == ch \in AsciiLower \cup AsciiUpper
is_ascii_alphanumeric(ch) == is_ascii_alphabetic(ch) \/ is_ascii_digit(ch)
is_alphanumeric(ch) == is_ascii_alphanumeric(ch) \/ ch \in WideLetters

\* str::len: the length in bytes
RECURSIVE byte_len(_)
byte_len(chars) ==
    IF chars = <<>> THEN 0 ELSE len_utf8(Head(chars)) + byte_len(Tail(chars))

\* peek, peek_next, current_pos
peek(src, at) == IF at <= Len(src) THEN Some(src[at]) ELSE None
peek_next(src, at) == peek(src, at + 1)
current_pos(src, at) ==
    IF at <= Len(src) THEN byte_len(SubSeq(src, 1, at - 1)) ELSE byte_len(src)

\* the loops `while let Some(ch) = self.peek()` of the comments, of the
\* numeric suffix and of the identifier: the index they leave
RECURSIVE scan_line(_, _)
scan_line(src, at) ==
    IF at <= Len(src) /\ src[at] # "\n" THEN scan_line(src, at + 1) ELSE at
RECURSIVE scan_suffix(_, _)
scan_suffix(src, at) ==
    IF at <= Len(src) /\ is_ascii_alphanumeric(src[at])
    THEN scan_suffix(src, at + 1)
    ELSE at
RECURSIVE scan_identifier(_, _)
scan_identifier(src, at) ==
    IF at <= Len(src) /\ (is_alphanumeric(src[at]) \/ src[at] = "_")
    THEN scan_identifier(src, at + 1)
    ELSE at

\* the position behind the last character before the index to, or fallback
\* when no character from the index from on was taken
end_of(src, from, to, fallback) ==
    IF to > from THEN current_pos(src, to - 1) + len_utf8(src[to - 1])
    ELSE fallback

\* skip_whitespace_and_comments: the index it leaves
RECURSIVE skip_whitespace_and_comments(_, _)
skip_whitespace_and_comments(src, at) ==
    IF at > Len(src) THEN at
    ELSE IF is_whitespace(src[at])
    THEN skip_whitespace_and_comments(src, at + 1)
    ELSE IF src[at] = "/" /\ peek_next(src, at) = Some("/")
    THEN skip_whitespace_and_comments(src, scan_line(src, at + 2))
    ELSE at

\* the decimal value of a buffer of digits (str::parse::<i64>; the sources
\* are too short for a literal that i64 does not hold)
digit_value(ch) ==
    CASE ch = "0" -> 0 [] ch = "1" -> 1 [] ch = "2" -> 2 [] ch = "3" -> 3
      [] ch = "4" -> 4 [] ch = "5" -> 5 [] ch = "6" -> 6 [] ch = "7" -> 7
      [] ch = "8" -> 8 [] ch = "9" -> 9
RECURSIVE parse_i64(_)
parse_i64(buffer) ==
    IF buffer = <<>> THEN 0
    ELSE 10 * parse_i64(SubSeq(buffer, 1, Len(buffer) - 1))
         + digit_value(buffer[Len(buffer)])

\* the digit loop of lex_number: [index, seen_dot]
RECURSIVE scan_number(_, _, _)
scan_number(src, at, seen_dot) ==
    IF at > Len(src) THEN [index |-> at, seen_dot |-> seen_dot]
    ELSE IF is_ascii_digit(src[at]) THEN scan_number(src, at + 1, seen_dot)
    ELSE IF src[at] = "." /\ ~seen_dot THEN scan_number(src, at + 1, TRUE)
    ELSE [index |-> at, seen_dot |-> seen_dot]

\* the match on the suffix buffer of lex_number
numeric_suffix(suffix_buf) ==
    CASE suffix_buf = <<"i", "3", "2">> -> Some([of |-> "Int", suffix |-> "I32"])
      [] suffix_buf = <<"i", "6", "4">> -> Some([of |-> "Int", suffix |-> "I64"])
      [] suffix_buf = <<"f", "3", "2">> ->
           Some([of |-> "Float", suffix |-> "F32"])
      [] suffix_buf = <<"f", "6", "4">> ->
           Some([of |-> "Float", suffix |-> "F64"])
      [] OTHER -> None

\* lex_number, entered behind the first digit: [ok, value, index]
lex_number(src, at, start_pos, first_char) ==
    LET digits == scan_number(src, at, FALSE)
        buffer == <<first_char>> \o SubSeq(src, at, digits.index - 1)
        literal_end ==
            end_of(src, at, digits.index, start_pos + len_utf8(first_char))
        has_suffix ==
            /\ digits.index <= Len(src)
            /\ is_ascii_alphabetic(src[digits.index])
        suffix_to ==
            IF has_suffix
            THEN scan_suffix(src, digits.index)
            ELSE digits.index
        suffix_buf == SubSeq(src, digits.index, suffix_to - 1)
        span_end == end_of(src, digits.index, suffix_to, literal_end)
        parsed_span == Span(current_pos(src, digits.index), span_end)
        suffix_kind == IF has_suffix THEN numeric_suffix(suffix_buf) ELSE None
        of == IF is_some(suffix_kind) THEN unwrap(suffix_kind).of ELSE "None"
        suffix ==
            IF is_some(suffix_kind) THEN unwrap(suffix_kind).suffix ELSE "None"
        token(kind) ==
            [ok |-> TRUE, value |-> LexToken(kind, Span(start_pos, span_end)),
             index |-> suffix_to]
        failed(message, span) ==
            [ok |-> FALSE, value |-> LexerError(message, span),
             index |-> suffix_to]
    IN  IF has_suffix /\ is_none(suffix_kind)
        THEN failed("invalid numeric suffix", parsed_span)
        ELSE IF digits.seen_dot /\ of = "Int"
        THEN failed("floating literal cannot use integer suffix", parsed_span)
        ELSE IF digits.seen_dot \/ of = "Float"
        THEN token([kind |-> "FloatLiteral", value |-> buffer,
                    suffix |-> suffix])
        ELSE token(IntToken(parse_i64(buffer), suffix))

\* the match on the identifier of lex_identifier
keyword(ident) ==
    CASE ident = <<"f", "n">> -> Token("Fn")
      [] ident = <<"l", "e", "t">> -> Token("Let")
      [] ident = <<"m", "u", "t">> -> Token("Mut")
      [] ident = <<"r", "e", "t", "u", "r", "n">> -> Token("Return")
      [] ident = <<"i", "f">> -> Token("If")
      [] ident = <<"e", "l", "s", "e">> -> Token("Else")
      [] ident = <<"l", "o", "o", "p">> -> Token("Loop")
      [] ident = <<"w", "h", "i", "l", "e">> -> Token("While")
      [] ident = <<"b", "r", "e", "a", "k">> -> Token("Break")
      [] ident = <<"c", "o", "n", "t", "i", "n", "u", "e">> -> Token("Continue")
      [] ident = <<"t", "r", "u", "e">> -> Token("True")
      [] ident = <<"f", "a", "l", "s", "e">> -> Token("False")
      [] ident = <<"s", "t", "r", "u", "c", "t">> -> Token("Struct")
      [] ident = <<"e", "n", "u", "m">> -> Token("Enum")
      [] OTHER -> Identifier(ident)

\* lex_identifier, entered behind the first character: [ok, value, index]
lex_identifier(src, at, start_pos, first_char) ==
    LET to == scan_identifier(src, at)
        ident == <<first_char>> \o SubSeq(src, at, to - 1)
        end_pos == end_of(src, at, to, start_pos + len_utf8(first_char))
    IN  [ok |-> TRUE,
         value |-> LexToken(keyword(ident), Span(start_pos, end_pos)),
         index |-> to]

\* the tokens of one character, and those that a second character extends
SingleTokens ==
    [ch \in {"(", ")", "{", "}", ":", ";", ",", "+", "*", "/", "%", "^"} |->
        CASE ch = "(" -> "LParen" [] ch = ")" -> "RParen"
          [] ch = "{" -> "LBrace" [] ch = "}" -> "RBrace"
          [] ch = ":" -> "Colon" [] ch = ";" -> "Semicolon"
          [] ch = "," -> "Comma" [] ch = "+" -> "Plus"
          [] ch = "*" -> "Star" [] ch = "/" -> "Slash"
          [] ch = "%" -> "Percent" [] ch = "^" -> "Caret"]
DoubleTokens ==
    [ch \in {"-", "=", "!", "<", ">", "&", "|"} |->
        CASE ch = "-" -> [alone |-> "Minus", with |-> {<<">", "Arrow">>}]
          [] ch = "=" ->
               [alone |-> "Assign", with |-> {<<"=", "DoubleEquals">>}]
          [] ch = "!" -> [alone |-> "Bang", with |-> {<<"=", "NotEquals">>}]
          [] ch = "<" ->
               [alone |-> "LessThan",
                with |-> {<<"<", "ShiftLeft">>, <<"=", "LessThanEqual">>}]
          [] ch = ">" ->
               [alone |-> "GreaterThan",
                with |-> {<<">", "ShiftRight">>, <<"=", "GreaterThanEqual">>}]
          [] ch = "&" -> [alone |-> "Ampersand", with |-> {<<"&", "AndAnd">>}]
          [] ch = "|" -> [alone |-> "Pipe", with |-> {<<"|", "OrOr">>}]]

\* the match on the first character of Lexer::next: [ok, value, index]
lex_token(src, at, start_pos, ch) ==
    LET one == Span(start_pos, start_pos + len_utf8(ch))
        pairs == {p \in DoubleTokens[ch].with : peek(src, at) = Some(p[1])}
        pair == CHOOSE p \in pairs : TRUE
    IN  CASE is_ascii_alphabetic(ch) \/ ch = "_" ->
               lex_identifier(src, at, start_pos, ch)
          [] is_ascii_digit(ch) -> lex_number(src, at, start_pos, ch)
          [] ch \in DOMAIN SingleTokens ->
               [ok |-> TRUE, value |-> LexToken(Token(SingleTokens[ch]), one),
                index |-> at]
          [] ch \in DOMAIN DoubleTokens ->
               IF pairs # {}
               THEN [ok |-> TRUE,
                     value |-> LexToken(Token(pair[2]),
                                        Span(start_pos,
                                             current_pos(src, at)
                                             + len_utf8(pair[1]))),
                     index |-> at + 1]
               ELSE [ok |-> TRUE,
                     value |-> LexToken(Token(DoubleTokens[ch].alone), one),
                     index |-> at]
          [] OTHER ->
               [ok |-> FALSE,
                value |-> LexerError("unexpected character", one),
                index |-> at]

\* Iterator::next for Lexer: [item, lexer], the item None or Some of
\* [ok, value], and the lexer after the call

\* next with the end of input counted in characters, not in bytes
Lexer_next_in_chars(src, self) ==
    LET at == skip_whitespace_and_comments(src, self.index)
    IN  IF self.finished THEN [item |-> None, lexer |-> self]
        ELSE IF at > Len(src)
        THEN [item |-> Some([ok |-> TRUE,
                             value |-> LexToken(Token("Eof"),
                                                Span(Len(src), Len(src)))]),
              lexer |-> [index |-> at, finished |-> TRUE]]
        ELSE LET r == lex_token(src, at + 1, current_pos(src, at), src[at])
             IN  [item |-> Some([ok |-> r.ok, value |-> r.value]),
                  lexer |-> [self EXCEPT !.index = r.index]]

Lexer_next(src, self) ==
    LET at == skip_whitespace_and_comments(src, self.index)
        result(r) ==
            [item |-> Some([ok |-> r.ok, value |-> r.value]),
             lexer |-> [self EXCEPT !.index = r.index]]
    IN  IF self.finished THEN [item |-> None, lexer |-> self]
        ELSE IF at > Len(src)
        THEN [item |-> Some([ok |-> TRUE,
                             value |-> LexToken(Token("Eof"),
                                                Span(byte_len(src),
                                                     byte_len(src)))]),
              lexer |-> [index |-> at, finished |-> TRUE]]
        ELSE result(lex_token(src, at + 1, current_pos(src, at), src[at]))

\* the sources of the lexer: every sequence of at most MaxChars characters
Chars == {"a", "1", ".", " ", "\n", "/", "-", ">", "#", "é"}
LexSources == UNION {[1..k -> Chars] : k \in 0..MaxChars}

(***************************************************************************)
(* parser.rs: Parser.  A parse function takes the tokens and the index of  *)
(* the current token, and returns [ok, value, index, err]: the tree and    *)
(* the index behind it, or the message of the CompileError.                *)
(***************************************************************************)
Parsed(value, at) == [ok |-> TRUE, value |-> value, index |-> at, err |-> ""]
Unparsed(err) == [ok |-> FALSE, value |-> <<>>, index |-> 0, err |-> err]

BinaryOpInfo(op, precedence, right_assoc) ==
    [op |-> op, precedence |-> precedence, right_assoc |-> right_assoc]

\* current_binary_op
current_binary_op(token) ==
    CASE token.kind = "Plus" -> Some(BinaryOpInfo("Add", 10, FALSE))
      [] token.kind = "Minus" -> Some(BinaryOpInfo("Sub", 10, FALSE))
      [] token.kind = "Star" -> Some(BinaryOpInfo("Mul", 20, FALSE))
      [] token.kind = "Slash" -> Some(BinaryOpInfo("Div", 20, FALSE))
      [] token.kind = "Percent" -> Some(BinaryOpInfo("Rem", 20, FALSE))
      [] token.kind = "DoubleEquals" -> Some(BinaryOpInfo("Eq", 5, FALSE))
      [] token.kind = "NotEquals" -> Some(BinaryOpInfo("Ne", 5, FALSE))
      [] token.kind = "LessThan" -> Some(BinaryOpInfo("Lt", 5, FALSE))
      [] token.kind = "LessThanEqual" -> Some(BinaryOpInfo("Le", 5, FALSE))
      [] token.kind = "GreaterThan" -> Some(BinaryOpInfo("Gt", 5, FALSE))
      [] token.kind = "GreaterThanEqual" -> Some(BinaryOpInfo("Ge", 5, FALSE))
      [] token.kind = "AndAnd" -> Some(BinaryOpInfo("And", 3, FALSE))
      [] token.kind = "OrOr" -> Some(BinaryOpInfo("Or", 2, FALSE))
      [] OTHER -> None

\* parse_type_expr
parse_type_expr(toks, at) ==
    IF toks[at].kind = "Identifier" THEN Parsed(Named(toks[at].name), at + 1)
    ELSE IF toks[at].kind = "LParen" /\ at + 1 <= Len(toks)
            /\ toks[at + 1].kind = "RParen"
    THEN Parsed(UnitTy, at + 2)
    ELSE Unparsed("expected type")

\* is_assignment_start
is_assignment_start(toks, at) ==
    /\ toks[at].kind = "Identifier"
    /\ at + 1 <= Len(toks)
    /\ toks[at + 1].kind = "Assign"

RECURSIVE parse_block(_, _), block_loop(_, _, _)
RECURSIVE parse_binary_expression(_, _, _), binary_loop(_, _, _, _)
RECURSIVE parse_unary(_, _), parse_args(_, _, _), call_loop(_, _, _)
RECURSIVE parse_if_expression(_, _)

\* parse_expression
parse_expression(toks, at) == parse_binary_expression(toks, at, 0)

\* parse_loop_expression
parse_loop_expression(toks, at) ==
    LET looped(body) ==
            IF ~body.ok THEN body ELSE Parsed(Loop(body.value), body.index)
    IN  looped(parse_block(toks, at + 1))

\* parse_while_expression
parse_while_expression(toks, at) ==
    LET with_body(condition, body) ==
            IF ~body.ok THEN body
            ELSE Parsed(While(condition.value, body.value), body.index)
        with_condition(condition) ==
            IF ~condition.ok THEN condition
            ELSE IF toks[condition.index].kind # "RParen"
            THEN Unparsed("expected ')' after while condition")
            ELSE with_body(condition, parse_block(toks, condition.index + 1))
    IN  IF toks[at + 1].kind # "LParen"
        THEN Unparsed("expected '(' after while")
        ELSE with_condition(parse_expression(toks, at + 2))

\* parse_if_expression
parse_if_expression(toks, at) ==
    LET finish(condition, then_branch, else_branch) ==
            IF ~else_branch.ok THEN else_branch
            ELSE Parsed(If(condition.value, then_branch.value,
                           Some(else_branch.value)),
                        else_branch.index)
        as_expression(block) ==
            IF ~block.ok THEN block
            ELSE Parsed(BlockExpr(block.value), block.index)
        with_then(condition, then_branch) ==
            IF ~then_branch.ok THEN then_branch
            ELSE IF toks[then_branch.index].kind # "Else"
            THEN Parsed(If(condition.value, then_branch.value, None),
                        then_branch.index)
            ELSE IF toks[then_branch.index + 1].kind = "If"
            THEN finish(condition, then_branch,
                        parse_if_expression(toks, then_branch.index + 1))
            ELSE finish(condition, then_branch,
                        as_expression(parse_block(toks,
                                                  then_branch.index + 1)))
        with_condition(condition) ==
            IF ~condition.ok THEN condition
            ELSE with_then(condition, parse_block(toks, condition.index))
    IN  with_condition(parse_expression(toks, at + 1))

\* parse_primary
parse_primary(toks, at) ==
    LET token == toks[at]
        as_expression(block) ==
            IF ~block.ok THEN block
            ELSE Parsed(BlockExpr(block.value), block.index)
    IN  CASE token.kind = "IntLiteral" ->
               Parsed(Literal("Int", token.value, token.suffix), at + 1)
          [] token.kind = "FloatLiteral" ->
               Parsed(Literal("Float", token.value, token.suffix), at + 1)
          [] token.kind = "True" -> Parsed(Literal("Bool", 1, "None"), at + 1)
          [] token.kind = "False" -> Parsed(Literal("Bool", 0, "None"), at + 1)
          [] token.kind = "Identifier" -> Parsed(Variable(token.name), at + 1)
          [] token.kind = "If" -> parse_if_expression(toks, at)
          [] token.kind = "Loop" -> parse_loop_expression(toks, at)
          [] token.kind = "While" -> parse_while_expression(toks, at)
          [] token.kind = "LBrace" -> as_expression(parse_block(toks, at))
          [] OTHER -> Unparsed("unexpected token in expression")

\* the argument loop of parse_call
parse_args(toks, at, args) ==
    LET next(arg) ==
            IF ~arg.ok THEN arg
            ELSE IF toks[arg.index].kind = "Comma"
            THEN parse_args(toks, arg.index + 1, Append(args, arg.value))
            ELSE Parsed(Append(args, arg.value), arg.index)
    IN  next(parse_expression(toks, at))

\* the loop of parse_call
call_loop(toks, expr, at) ==
    LET called(args) ==
            IF ~args.ok THEN args
            ELSE IF toks[args.index].kind # "RParen"
            THEN Unparsed("expected ')' after arguments")
            ELSE IF expr.kind # "Variable"
            THEN Unparsed("only identifier calls supported in MVP")
            ELSE call_loop(toks, Call(expr.name, args.value), args.index + 1)
    IN  IF toks[at].kind # "LParen" THEN Parsed(expr, at)
        ELSE IF toks[at + 1].kind = "RParen" THEN called(Parsed(<<>>, at + 1))
        ELSE called(parse_args(toks, at + 1, <<>>))

\* parse_call
parse_call(toks, at) ==
    LET loop(expr) ==
            IF ~expr.ok THEN expr ELSE call_loop(toks, expr.value, expr.index)
    IN  loop(parse_primary(toks, at))

\* parse_unary
parse_unary(toks, at) ==
    LET applied_to(op, expr) ==
            IF ~expr.ok THEN expr
            ELSE Parsed(Unary(op, expr.value), expr.index)
    IN  IF toks[at].kind = "Minus"
        THEN applied_to("Neg", parse_unary(toks, at + 1))
        ELSE IF toks[at].kind = "Bang"
        THEN applied_to("Not", parse_unary(toks, at + 1))
        ELSE parse_call(toks, at)

\* the loop of parse_binary_expression
binary_loop(toks, left, at, min_prec) ==
    LET op_info == current_binary_op(toks[at])
        info == unwrap(op_info)
        next_min_prec ==
            IF info.right_assoc THEN info.precedence ELSE info.precedence + 1
        joined(right) ==
            IF ~right.ok THEN right
            ELSE binary_loop(toks, Binary(info.op, left, right.value),
                             right.index, min_prec)
    IN  IF is_none(op_info) THEN Parsed(left, at)
        ELSE IF info.precedence < min_prec THEN Parsed(left, at)
        ELSE joined(parse_binary_expression(toks, at + 1, next_min_prec))

\* parse_binary_expression
parse_binary_expression(toks, at, min_prec) ==
    LET loop(left) ==
            IF ~left.ok THEN left
            ELSE binary_loop(toks, left.value, left.index, min_prec)
    IN  loop(parse_unary(toks, at))

\* parse_let_statement
parse_let_statement(toks, at) ==
    LET mutable == toks[at + 1].kind = "Mut"
        name_at == IF mutable THEN at + 2 ELSE at + 1
        valued(ty, value) ==
            IF ~value.ok THEN value
            ELSE Parsed(Let(toks[name_at].name, mutable, ty.value, value.value),
                        value.index)
        typed(ty) ==
            IF ~ty.ok THEN ty
            ELSE IF toks[ty.index].kind # "Assign"
            THEN Unparsed("expected '=' in let binding")
            ELSE valued(ty, parse_expression(toks, ty.index + 1))
    IN  IF toks[name_at].kind # "Identifier"
        THEN Unparsed("expected binding name")
        ELSE IF toks[name_at + 1].kind # "Colon"
        THEN Unparsed("expected ':' after binding name")
        ELSE typed(parse_type_expr(toks, name_at + 2))

\* parse_assignment, entered on an identifier that an = follows
parse_assignment(toks, at) ==
    LET valued(value) ==
            IF ~value.ok THEN value
            ELSE Parsed(Assign(toks[at].name, value.value), value.index)
    IN  valued(parse_expression(toks, at + 2))

\* parse_return_statement
parse_return_statement(toks, at) ==
    LET valued(value) ==
            IF ~value.ok THEN value
            ELSE Parsed(Return(Some(value.value)), value.index)
    IN  IF toks[at + 1].kind = "Semicolon" THEN Parsed(Return(None), at + 1)
        ELSE valued(parse_expression(toks, at + 1))

\* the loop of parse_block and the closing brace
block_loop(toks, at, statements) ==
    LET close(tail, end) ==
            IF toks[end].kind = "RBrace"
            THEN Parsed(Block(statements, tail), end + 1)
            ELSE Unparsed("expected '}' to close block")
        terminated(stmt, message) ==
            IF ~stmt.ok THEN stmt
            ELSE IF toks[stmt.index].kind # "Semicolon" THEN Unparsed(message)
            ELSE block_loop(toks, stmt.index + 1,
                            Append(statements, stmt.value))
        expression(expr) ==
            IF ~expr.ok THEN expr
            ELSE IF toks[expr.index].kind = "Semicolon"
            THEN block_loop(toks, expr.index + 1,
                            Append(statements, ExprStmt(expr.value)))
            ELSE IF expr.value.kind \in {"Loop", "While"}
            THEN block_loop(toks, expr.index,
                            Append(statements, ExprStmt(expr.value)))
            ELSE close(Some(expr.value), expr.index)
    IN  CASE toks[at].kind \in {"RBrace", "Eof"} -> close(None, at)
          [] toks[at].kind = "Let" ->
               terminated(parse_let_statement(toks, at),
                          "expected ';' after let statement")
          [] toks[at].kind = "Return" ->
               terminated(parse_return_statement(toks, at),
                          "expected ';' after return")
          [] is_assignment_start(toks, at) ->
               terminated(parse_assignment(toks, at),
                          "expected ';' after assignment")
          [] toks[at].kind = "Break" ->
               terminated(Parsed(Break(None), at + 1),
                          "expected ';' after break")
          [] toks[at].kind = "Continue" ->
               terminated(Parsed(Continue, at + 1),
                          "expected ';' after continue")
          [] OTHER -> expression(parse_expression(toks, at))

\* parse_block
parse_block(toks, at) ==
    IF toks[at].kind # "LBrace" THEN Unparsed("expected '{'")
    ELSE block_loop(toks, at + 1, <<>>)

\* parse_params
RECURSIVE parse_params(_, _, _)
parse_params(toks, at, params) ==
    LET typed(ty) ==
            IF ~ty.ok THEN ty
            ELSE IF toks[ty.index].kind = "Comma"
            THEN parse_params(toks, ty.index + 1,
                              Append(params, Param(toks[at].name, ty.value)))
            ELSE Parsed(Append(params, Param(toks[at].name, ty.value)),
                        ty.index)
    IN  IF toks[at].kind = "RParen" THEN Parsed(params, at)
        ELSE IF toks[at].kind # "Identifier"
        THEN Unparsed("expected parameter name")
        ELSE IF toks[at + 1].kind # "Colon"
        THEN Unparsed("expected ':' after parameter name")
        ELSE typed(parse_type_expr(toks, at + 2))

\* parse_function
parse_function(toks, at) ==
    LET with_body(params, return_type, body) ==
            IF ~body.ok THEN body
            ELSE Parsed(Function(toks[at + 1].name, params.value,
                                 return_type.value, body.value),
                        body.index)
        with_type(params, return_type) ==
            IF ~return_type.ok THEN return_type
            ELSE with_body(params, return_type,
                           parse_block(toks, return_type.index))
        with_params(params) ==
            IF ~params.ok THEN params
            ELSE IF toks[params.index].kind # "RParen"
            THEN Unparsed("expected ')' after parameters")
            ELSE IF toks[params.index + 1].kind = "Arrow"
            THEN with_type(params, parse_type_expr(toks, params.index + 2))
            ELSE with_type(params, Parsed(UnitTy, params.index + 1))
    IN  IF toks[at].kind # "Fn" THEN Unparsed("expected `fn`")
        ELSE IF toks[at + 1].kind # "Identifier"
        THEN Unparsed("expected function name")
        ELSE IF toks[at + 2].kind # "LParen"
        THEN Unparsed("expected '(' after function name")
        ELSE with_params(parse_params(toks, at + 3, <<>>))

\* parse_program
RECURSIVE parse_functions(_, _, _)
parse_functions(toks, at, functions) ==
    LET next(function) ==
            IF ~function.ok THEN function
            ELSE parse_functions(toks, function.index,
                                 Append(functions, function.value))
    IN  IF toks[at].kind = "Eof" THEN Parsed(Program(<<>>, functions), at)
        ELSE next(parse_function(toks, at))
parse_program(toks) == parse_functions(toks, 1, <<>>)

\* the sources about the binary operators: fn main() -> i32 { a op1 b op2 c }
\* for every two operator tokens of the lexer
OperatorTokens ==
    {"Star", "Slash", "Percent", "Plus", "Minus", "ShiftLeft", "ShiftRight",
     "Ampersand", "Caret", "Pipe", "DoubleEquals", "NotEquals", "LessThan",
     "LessThanEqual", "GreaterThan", "GreaterThanEqual", "AndAnd", "OrOr"}
Source(body) ==
    <<Token("Fn"), Identifier("main"), Token("LParen"), Token("RParen"),
      Token("Arrow"), Identifier("i32"), Token("LBrace")>>
    \o body \o <<Token("RBrace"), Token("Eof")>>
OperatorSources ==
    {Source(<<Identifier("a"), Token(op1), Identifier("b"), Token(op2),
              Identifier("c")>>) : op1 \in OperatorTokens,
                                   op2 \in OperatorTokens}

\* the sources about commas: fn helper(params) -> i32 { 0 } and
\* fn main() -> i32 { helper(args) }, the lists with and without a comma
\* after their last element
ParamTokens(name) == <<Identifier(name), Token("Colon"), Identifier("i32")>>
Comma == <<Token("Comma")>>
ParamLists ==
    {<<>>, ParamTokens("a"), ParamTokens("a") \o Comma,
     ParamTokens("a") \o Comma \o ParamTokens("b"),
     ParamTokens("a") \o Comma \o ParamTokens("b") \o Comma}
ArgLists ==
    {<<>>, <<IntToken(1, "None")>>, <<IntToken(1, "None")>> \o Comma,
     <<IntToken(1, "None")>> \o Comma \o <<IntToken(2, "None")>>,
     <<IntToken(1, "None")>> \o Comma \o <<IntToken(2, "None")>> \o Comma}
CommaSource(params, args) ==
    <<Token("Fn"), Identifier("helper"), Token("LParen")>> \o params
    \o <<Token("RParen"), Token("Arrow"), Identifier("i32"), Token("LBrace"),
         IntToken(0, "None"), Token("RBrace"),
         Token("Fn"), Identifier("main"), Token("LParen"), Token("RParen"),
         Token("Arrow"), Identifier("i32"), Token("LBrace"),
         Identifier("helper"), Token("LParen")>> \o args
    \o <<Token("RParen"), Token("RBrace"), Token("Eof")>>
CommaSources ==
    {CommaSource(params, args) : params \in ParamLists, args \in ArgLists}

Sources == OperatorSources \cup CommaSources

(***************************************************************************)
(* The compilation as a state machine.                                     *)
(***************************************************************************)
\* the state in which a compilation starts
\* the lexer does not run
NoLexer ==
    /\ source = <<>>
    /\ lexer = [index |-> 1, finished |-> FALSE]
    /\ yielded = <<>>

Start ==
    /\ constants = {}
    /\ pc = "constants"
    /\ index = 1
    /\ checker = TypeChecker_new
    /\ main_found = FALSE
    /\ hir = <<>>
    /\ func_types = <<>>
    /\ function_indices = HashMap_new
    /\ bodies = <<>>
    /\ module = <<>>
    /\ error = ""
    /\ stage = ""

Init ==
    /\ program \in Programs
    /\ hash_order \in Orders(Len(program.functions))
    /\ run = 1
    /\ first_module = <<>>
    /\ first_order = <<>>
    /\ tokens = <<>>
    /\ NoLexer
    /\ Start

InitTwice ==
    /\ program \in TwicePrograms
    /\ hash_order \in Orders(Len(program.functions))
    /\ run = 1
    /\ first_module = <<>>
    /\ first_order = <<>>
    /\ tokens = <<>>
    /\ NoLexer
    /\ Start

\* the typed tree of the only function of a program
typed_function(function) ==
    check_function(collect_signature(TypeChecker_new, FALSE, function).self,
                   function)

\* simplification starts on the typed tree of a program
InitPasses ==
    /\ program \in PassPrograms
    /\ LET from(typed) == typed.ok /\ hir = <<typed.value>>
       IN  from(typed_function(program.functions[1]))
    /\ pc = "simplify"
    /\ index = 1
    /\ constants = {}
    /\ checker = TypeChecker_new
    /\ main_found = FALSE
    /\ func_types = <<>>
    /\ function_indices = HashMap_new
    /\ bodies = <<>>
    /\ module = <<>>
    /\ error = ""
    /\ stage = ""
    /\ hash_order = <<1>>
    /\ run = 1
    /\ first_module = <<>>
    /\ first_order = <<>>
    /\ tokens = <<>>
    /\ NoLexer

\* return Err(CompileError::new(msg)) from the stage at
Fail(msg, at) ==
    /\ pc' = "error"
    /\ error' = msg
    /\ stage' = at
    /\ UNCHANGED <<program, index, main_found, hir, func_types,
                   function_indices, bodies, module, hash_order, run,
                   first_module, first_order, tokens,
                   source, lexer, yielded>>

\* global collection registers the next constant
CollectConstant ==
    /\ pc = "constants"
    /\ index <= Len(program.constants)
    /\ LET r == collect_constant(constants, checker.functions,
                                 program.constants[index])
       IN  IF r.ok
           THEN /\ constants' = r.table
                /\ index' = index + 1
                /\ UNCHANGED <<program, pc, checker, main_found, hir,
                               func_types, function_indices, bodies, module,
                               error, stage, hash_order, run, first_module, first_order, tokens,
                               source, lexer, yielded>>
           ELSE Fail(r.err, "constants") /\ UNCHANGED <<constants, checker>>

\* global collection turns to the functions
CollectFunctions ==
    /\ pc = "constants"
    /\ index > Len(program.constants)
    /\ pc' = "collect"
    /\ index' = 1
    /\ UNCHANGED <<program, constants, checker, main_found, hir, func_types,
                   function_indices, bodies, module, error, stage, hash_order,
                   run, first_module, first_order, tokens,
                   source, lexer, yielded>>

\* check, first loop: one iteration
CollectSignature ==
    /\ pc = "collect"
    /\ index <= Len(program.functions)
    /\ LET function == program.functions[index]
           r == collect_signature(checker, main_found, function)
       IN  IF ~r.ok
           THEN Fail(r.err, "collect") /\ UNCHANGED <<constants, checker>>
           ELSE IF constant_conflict(constants, function)
           THEN Fail("duplicate definition", "collect")
                /\ UNCHANGED <<constants, checker>>
           ELSE /\ checker' = r.self
                /\ main_found' = r.value
                /\ index' = index + 1
                /\ UNCHANGED <<program, constants, pc, hir, func_types,
                               function_indices, bodies, module, error, stage,
                               hash_order, run, first_module, first_order, tokens,
                               source, lexer, yielded>>

\* check that turns to the bodies as soon as main is registered
CheckAfterFirstSignature ==
    /\ pc = "collect"
    /\ index > 1
    /\ IF ~main_found
       THEN /\ index > Len(program.functions)
            /\ Fail("program must define fn main() -> i32", "collect")
            /\ UNCHANGED <<constants, checker>>
       ELSE /\ pc' = "check"
            /\ index' = 1
            /\ UNCHANGED <<program, constants, checker, main_found, hir,
                           func_types, function_indices, bodies, module, error,
                           stage, hash_order, run, first_module, first_order, tokens,
                           source, lexer, yielded>>

\* check, after the first loop: a program without main is rejected
RequireMain ==
    /\ pc = "collect"
    /\ index > Len(program.functions)
    /\ IF ~main_found
       THEN Fail("program must define fn main() -> i32", "collect")
            /\ UNCHANGED <<constants, checker>>
       ELSE /\ pc' = "check"
            /\ index' = 1
            /\ UNCHANGED <<program, constants, checker, main_found, hir,
                           func_types, function_indices, bodies, module, error,
                           stage, hash_order, run, first_module, first_order, tokens,
                           source, lexer, yielded>>

\* check, second loop: one iteration
CheckFunction ==
    /\ pc = "check"
    /\ index <= Len(program.functions)
    /\ LET checked(r) ==
               IF ~r.ok
               THEN /\ Fail(r.err, "check")
                    /\ checker' = r.self
                    /\ UNCHANGED constants
               ELSE /\ checker' = r.self
                    /\ hir' = Append(hir, r.value)
                    /\ index' = index + 1
                    /\ UNCHANGED <<program, constants, pc, main_found,
                                   func_types, function_indices, bodies, module,
                                   error, stage, hash_order, run, first_module, first_order, tokens,
                                   source, lexer, yielded>>
       IN  checked(check_function(checker, program.functions[index]))

\* check returns the typed program and emit_program starts on it
EmitProgram ==
    /\ pc = "check"
    /\ index > Len(program.functions)
    /\ pc' = "index"
    /\ index' = 1
    /\ func_types' = <<>>
    /\ function_indices' = HashMap_new
    /\ UNCHANGED <<program, constants, checker, main_found, hir, bodies,
                   module, error, stage, hash_order, run, first_module, first_order, tokens,
                   source, lexer, yielded>>

\* emit_program, first loop: one iteration, or the turn to the second loop
IndexFunction ==
    /\ pc = "index"
    /\ IF index <= Len(hir)
       THEN LET r == function_type(hir[index])
            IN  IF ~r.ok
                THEN Fail(r.err, "emit") /\ UNCHANGED <<constants, checker>>
                ELSE /\ func_types' = Append(func_types, r.func_type)
                     /\ function_indices' =
                            insert(function_indices, hir[index].name,
                                   enumerate_index(hir, index))
                     /\ index' = index + 1
                     /\ UNCHANGED <<program, constants, pc, checker,
                                    main_found, hir, bodies, module, error,
                                    stage, hash_order, run, first_module, first_order, tokens,
                                    source, lexer, yielded>>
       ELSE /\ pc' = "emit"
            /\ index' = 1
            /\ bodies' = <<>>
            /\ UNCHANGED <<program, constants, checker, main_found, hir,
                           func_types, function_indices, module, error, stage,
                           hash_order, run, first_module, first_order, tokens,
                           source, lexer, yielded>>

\* emit_program, second loop: one iteration
EmitFunction ==
    /\ pc = "emit"
    /\ index <= Len(hir)
    /\ LET emitted(r) ==
               IF ~r.ok
               THEN Fail(r.err, "emit") /\ UNCHANGED <<constants, checker>>
               ELSE /\ bodies' = Append(bodies, r.value)
                    /\ index' = index + 1
                    /\ UNCHANGED <<program, constants, pc, checker, main_found,
                                   hir, func_types, function_indices, module,
                                   error, stage, hash_order, run, first_module, first_order, tokens,
                                   source, lexer, yielded>>
       IN  emitted(emit_function(FunctionEmitter_new(hir[index],
                                                     function_indices),
                                 hir[index]))

\* emit_program, after the loops: the module is put together
Assemble ==
    /\ pc = "emit"
    /\ index > Len(hir)
    /\ LET r == assemble(hir, func_types, bodies)
       IN  IF ~r.ok
           THEN Fail(r.err, "emit") /\ UNCHANGED <<constants, checker>>
           ELSE /\ module' = r.bytes
                /\ pc' = "done"
                /\ UNCHANGED <<program, constants, index, checker, main_found,
                               hir, func_types, function_indices, bodies, error,
                               stage, hash_order, run, first_module, first_order, tokens,
                               source, lexer, yielded>>

\* the same program is compiled a second time, by a process whose
\* HashMaps iterate in an order of their own
Recompile ==
    /\ pc = "done"
    /\ run = 1
    /\ run' = 2
    /\ first_module' = module
    /\ first_order' = hash_order
    /\ hash_order' \in Orders(Len(program.functions))
    /\ constants' = {}
    /\ pc' = "constants"
    /\ index' = 1
    /\ checker' = TypeChecker_new
    /\ main_found' = FALSE
    /\ hir' = <<>>
    /\ func_types' = <<>>
    /\ function_indices' = HashMap_new
    /\ bodies' = <<>>
    /\ module' = <<>>
    /\ error' = ""
    /\ stage' = ""
    /\ UNCHANGED <<program, tokens,
                   source, lexer, yielded>>

Compile ==
    \/ CollectConstant
    \/ CollectFunctions
    \/ CollectSignature
    \/ RequireMain
    \/ CheckFunction
    \/ EmitProgram
    \/ IndexFunction
    \/ EmitFunction
    \/ Assemble

\* the simplification rewrites the next function
Simplify ==
    /\ pc = "simplify"
    /\ index <= Len(hir)
    /\ hir' = [hir EXCEPT ![index] = simplify_function(@)]
    /\ index' = index + 1
    /\ UNCHANGED <<program, constants, pc, checker, main_found, func_types,
                   function_indices, bodies, module, error, stage, hash_order,
                   run, first_module, first_order, tokens,
                   source, lexer, yielded>>

\* the simplification hands the tree on
Simplified ==
    /\ pc = "simplify"
    /\ index > Len(hir)
    /\ pc' = "simplified"
    /\ UNCHANGED <<program, constants, index, checker, main_found, hir,
                   func_types, function_indices, bodies, module, error, stage,
                   hash_order, run, first_module, first_order, tokens,
                   source, lexer, yielded>>

NextPasses == Simplify \/ Simplified

\* the state in which the parser starts on the tokens of a source
InitParse ==
    /\ tokens \in Sources
    /\ program = Program(<<>>, <<>>)
    /\ pc = "parse"
    /\ index = 1
    /\ constants = {}
    /\ checker = TypeChecker_new
    /\ main_found = FALSE
    /\ hir = <<>>
    /\ func_types = <<>>
    /\ function_indices = HashMap_new
    /\ bodies = <<>>
    /\ module = <<>>
    /\ error = ""
    /\ stage = ""
    /\ hash_order = <<>>
    /\ run = 1
    /\ first_module = <<>>
    /\ first_order = <<>>
    /\ NoLexer

\* Parser::parse_program returns the tree or the error
ParseProgram ==
    /\ pc = "parse"
    /\ LET parsed(r) ==
               IF ~r.ok
               THEN Fail(r.err, "parse")
                    /\ UNCHANGED <<constants, checker>>
               ELSE /\ program' = r.value
                    /\ pc' = "parsed"
                    /\ UNCHANGED <<constants, index, checker, main_found, hir,
                                   func_types, function_indices, bodies,
                                   module, error, stage, hash_order, run,
                                   first_module, first_order, tokens,
                                   source, lexer, yielded>>
       IN  parsed(parse_program(tokens))

NextParse == ParseProgram

\* the state in which a lexer starts on a source
InitLex ==
    /\ source \in LexSources
    /\ lexer = Lexer_new
    /\ yielded = <<>>
    /\ tokens = <<>>
    /\ program = Program(<<>>, <<>>)
    /\ pc = "lex"
    /\ index = 1
    /\ constants = {}
    /\ checker = TypeChecker_new
    /\ main_found = FALSE
    /\ hir = <<>>
    /\ func_types = <<>>
    /\ function_indices = HashMap_new
    /\ bodies = <<>>
    /\ module = <<>>
    /\ error = ""
    /\ stage = ""
    /\ hash_order = <<>>
    /\ run = 1
    /\ first_module = <<>>
    /\ first_order = <<>>

\* one call of Lexer::next
LexerNext ==
    /\ pc = "lex"
    /\ Len(yielded) < MaxCalls
    /\ LET returned(r) ==
               /\ lexer' = r.lexer
               /\ yielded' = Append(yielded, r.item)
       IN  returned(Lexer_next(source, lexer))
    /\ UNCHANGED <<program, constants, pc, index, checker, main_found, hir,
                   func_types, function_indices, bodies, module, error, stage,
                   hash_order, run, first_module, first_order, tokens, source>>

NextLex == LexerNext

Next == Compile

NextTwice == Compile \/ Recompile

Spec == Init /\ [][Next]_vars

SpecPasses == InitPasses /\ [][NextPasses]_vars
SpecParse == InitParse /\ [][NextParse]_vars
SpecLex == InitLex /\ [][NextLex]_vars
SpecTwice == InitTwice /\ [][NextTwice]_vars

(***************************************************************************)
(* Reading a module back: its sections, types, functions and exports.      *)
(***************************************************************************)
RECURSIVE read_u32(_, _)
\* the LEB128 number at pos and the position after it
read_u32(bytes, pos) ==
    IF bytes[pos] >= 128
    THEN LET rest == read_u32(bytes, pos + 1)
         IN  [value |-> (bytes[pos] - 128) + 128 * rest.value,
              next |-> rest.next]
    ELSE [value |-> bytes[pos], next |-> pos + 1]

RECURSIVE section_from(_, _, _)
section_from(bytes, id, pos) ==
    IF pos > Len(bytes) THEN <<>>
    ELSE LET size == read_u32(bytes, pos + 1)
         IN  IF bytes[pos] = id
             THEN SubSeq(bytes, size.next, size.next + size.value - 1)
             ELSE section_from(bytes, id, size.next + size.value)
\* the contents of the section id, after the 8 bytes of magic and version
section(bytes, id) == section_from(bytes, id, Len(<<0, 97, 115, 109, 1, 0, 0, 0>>) + 1)

RECURSIVE sections_from(_, _)
\* the ids of the sections in their order
sections_from(bytes, pos) ==
    IF pos > Len(bytes) THEN <<>>
    ELSE LET size == read_u32(bytes, pos + 1)
         IN  <<bytes[pos]>> \o sections_from(bytes, size.next + size.value)

RECURSIVE types_from(_, _, _)
types_from(sec, pos, n) ==
    IF n = 0 THEN <<>>
    ELSE LET np == read_u32(sec, pos + 1)
             nr == read_u32(sec, np.next + np.value)
         IN  <<[params |-> SubSeq(sec, np.next, np.next + np.value - 1),
                results |-> SubSeq(sec, nr.next, nr.next + nr.value - 1)]>>
             \o types_from(sec, nr.next + nr.value, n - 1)
\* the function types of the type section
module_types(bytes) ==
    LET sec == section(bytes, 1)
        count == read_u32(sec, 1)
    IN  types_from(sec, count.next, count.value)

RECURSIVE numbers_from(_, _, _)
numbers_from(sec, pos, n) ==
    IF n = 0 THEN <<>>
    ELSE LET number == read_u32(sec, pos)
         IN  <<number.value>> \o numbers_from(sec, number.next, n - 1)
\* the type index of every function of the function section
module_functions(bytes) ==
    LET sec == section(bytes, 3)
        count == read_u32(sec, 1)
    IN  numbers_from(sec, count.next, count.value)

RECURSIVE exports_from(_, _, _)
exports_from(sec, pos, n) ==
    IF n = 0 THEN <<>>
    ELSE LET len == read_u32(sec, pos)
             number == read_u32(sec, len.next + len.value + 1)
         IN  <<[name |-> SubSeq(sec, len.next, len.next + len.value - 1),
                kind |-> sec[len.next + len.value],
                index |-> number.value]>>
             \o exports_from(sec, number.next, n - 1)
\* the exports of the export section, in their order
module_exports(bytes) ==
    LET sec == section(bytes, 7)
        count == read_u32(sec, 1)
    IN  exports_from(sec, count.next, count.value)

\* the type of the function with the given index
module_function_type(bytes, function_index) ==
    module_types(bytes)[module_functions(bytes)[function_index + 1] + 1]

(***************************************************************************)
(* Stages of a compilation.                                                *)
(***************************************************************************)
\* TypeChecker::check has returned the typed program
TypeChecked ==
    \/ pc \in {"index", "emit", "done"}
    \/ pc = "error" /\ stage = "emit"
\* the compilation has produced a module
Compiled == pc = "done"
\* the compilation was rejected by global collection
RejectedByCollection == pc = "error" /\ stage \in {"constants", "collect"}

FunctionsNamed(name) ==
    {i \in 1..Len(program.functions) : program.functions[i].name = name}

ExportsFunction(bytes, name, params, results) ==
    \E i \in 1..Len(module_exports(bytes)) :
        LET export == module_exports(bytes)[i]
        IN  /\ export.name = as_bytes(name)
            /\ export.kind = 0
            /\ module_function_type(bytes, export.index) =
                   [params |-> params, results |-> results]

RECURSIVE nodes(_)
option_nodes(o) == IF is_some(o) THEN nodes(unwrap(o)) ELSE {}
statement_nodes(s) ==
    CASE s.kind \in {"Let", "Assign"} -> nodes(s.value)
      [] s.kind \in {"Return", "Break"} -> option_nodes(s.value)
      [] s.kind = "Continue" -> {}
      [] s.kind = "Expr" -> nodes(s.expr)
block_nodes(b) ==
    UNION {statement_nodes(b.statements[i]) : i \in 1..Len(b.statements)}
    \cup option_nodes(b.tail)
\* the expressions of a tree: the expression and those inside it
nodes(e) ==
    {e} \cup
    CASE e.kind \in {"Literal", "Variable"} -> {}
      [] e.kind = "Binary" -> nodes(e.left) \cup nodes(e.right)
      [] e.kind \in {"Unary", "Group"} -> nodes(e.expr)
      [] e.kind = "Call" -> UNION {nodes(e.args[i]) : i \in 1..Len(e.args)}
      [] e.kind = "If" ->
           nodes(e.condition) \cup block_nodes(e.then_branch)
           \cup option_nodes(e.else_branch)
      [] e.kind = "Block" -> block_nodes(e)
      [] e.kind = "Loop" -> block_nodes(e.body)
      [] e.kind = "While" -> nodes(e.condition) \cup block_nodes(e.body)

RECURSIVE jumps(_)
option_jumps(o) == IF is_some(o) THEN jumps(unwrap(o)) ELSE {}
statement_jumps(s) ==
    CASE s.kind \in {"Let", "Assign"} -> jumps(s.value)
      [] s.kind = "Return" -> option_jumps(s.value)
      [] s.kind = "Break" -> {s} \cup option_jumps(s.value)
      [] s.kind = "Continue" -> {s}
      [] s.kind = "Expr" -> jumps(s.expr)
block_jumps(b) ==
    UNION {statement_jumps(b.statements[i]) : i \in 1..Len(b.statements)}
    \cup option_jumps(b.tail)
\* the break and continue statements of a tree that are in the body of no
\* loop or while inside the tree; the condition of a while is not its body
jumps(e) ==
    CASE e.kind \in {"Literal", "Variable", "Loop"} -> {}
      [] e.kind = "Binary" -> jumps(e.left) \cup jumps(e.right)
      [] e.kind \in {"Unary", "Group"} -> jumps(e.expr)
      [] e.kind = "Call" -> UNION {jumps(e.args[i]) : i \in 1..Len(e.args)}
      [] e.kind = "If" ->
           jumps(e.condition) \cup block_jumps(e.then_branch)
           \cup option_jumps(e.else_branch)
      [] e.kind = "Block" -> block_jumps(e)
      [] e.kind = "While" -> jumps(e.condition)

\* the breaks of a set of jumps that carry a value
carrying(js) == {j \in js : j.kind = "Break" /\ is_some(j.value)}

\* the expressions of the functions the type checker has accepted
TypedNodes == UNION {block_nodes(hir[i].body) : i \in 1..Len(hir)}

(***************************************************************************)
(* C4                                                                      *)
(***************************************************************************)
\* C4: no function that the type checker accepts has a break or continue
\* outside the bodies of its loops and whiles, and between two functions
\* the type checker is in no loop
C4_NoJumpOutsideLoop ==
    /\ \A i \in 1..Len(hir) : block_jumps(program.functions[i].body) = {}
    /\ pc = "check" => checker.loop_stack = <<>>

\* a continue that follows a complete loop in main has been rejected
C4_Witness ==
    /\ pc = "error"
    /\ error = "continue outside of loop"
    /\ program.functions[1].name = "main"
    /\ program.functions[1].body.statements = <<Looping, Continue>>

break_types(loop_expr) ==
    {expr_ty(unwrap(j.value)) : j \in carrying(block_jumps(loop_expr.body))}

\* C6: for every loop the type checker accepts, the breaks of its body
\* that carry a value (those in the body of a nested loop or while left
\* out) carry values of one type, which is the type of the loop; a loop
\* without such a break has type unit
C6_LoopType ==
    \A l \in {e \in TypedNodes : e.kind = "Loop"} :
        IF break_types(l) = {} THEN l.ty = "Unit" ELSE break_types(l) = {l.ty}

\* a loop of type i32 around a loop of type bool has been compiled
C6_Witness ==
    /\ Compiled
    /\ program.functions[1].body.statements =
           <<Wrap("loop_break_one", <<Wrap("loop", <<Break(Some(True))>>)>>)>>
    /\ \E l \in TypedNodes : l.kind = "Loop" /\ l.ty = "I32"
    /\ \E l \in TypedNodes : l.kind = "Loop" /\ l.ty = "Bool"

(***************************************************************************)
(* C7                                                                      *)
(***************************************************************************)
\* two top-level definitions of the program share a name
SharedName ==
    \/ \E i, j \in 1..Len(program.functions) :
          i < j /\ program.functions[i].name = program.functions[j].name
    \/ \E i \in 1..Len(program.functions), j \in 1..Len(program.constants) :
          program.functions[i].name = program.constants[j].name
    \/ \E i \in 1..Len(program.functions) :
          program.functions[i].name \in DOMAIN Intrinsics

\* C7: a program in which two functions, a function and a constant, or a
\* function and an intrinsic share a name never leaves global collection
\* but by an error, and none of its function bodies is checked
C7_SharedNameRejected ==
    SharedName =>
        /\ pc \in {"constants", "collect", "error"}
        /\ pc = "error" => RejectedByCollection
        /\ hir = <<>>

\* a second helper has been rejected though the body of the first one is
\* ill-typed
C7_Witness ==
    /\ RejectedByCollection
    /\ error = "function already defined"
    /\ hir = <<>>
    /\ Len(program.functions) = 2
    /\ program.functions[1] = Function("helper", <<>>, i32, Yields(True))
    /\ program.functions[2].name = "helper"

(***************************************************************************)
(* C8                                                                      *)
(***************************************************************************)
Logical == {"And", "Or"}

\* the type the type checker gives to a literal
literal_type(lit) == check_literal(TypeChecker_new, lit).value.ty

\* an operator, not a logical one, over integer literals of two types
MixedLiterals(e) ==
    /\ e.kind = "Binary"
    /\ e.op \notin Logical
    /\ e.left.kind = "Literal" /\ e.left.lit = "Int"
    /\ e.right.kind = "Literal" /\ e.right.lit = "Int"
    /\ literal_type(e.left) # literal_type(e.right)

\* C8: no function that the type checker accepts applies an arithmetic,
\* remainder, bitwise, shift, ordering or equality operator to operands of
\* two integer types: the typed operands have one type, which is a type
\* of the language, and the operands are typed as they are written
C8_NoMixedIntegerOperands ==
    /\ \A e \in TypedNodes :
          /\ expr_ty(e) \in Type
          /\ (e.kind = "Binary" /\ e.op \notin Logical
              /\ is_integer(expr_ty(e.left)) /\ is_integer(expr_ty(e.right)))
             => expr_ty(e.left) = expr_ty(e.right)
    /\ \A i \in 1..Len(hir) :
          \A e \in block_nodes(program.functions[i].body) : ~MixedLiterals(e)

\* the sum of an i32 and an i64 has been rejected
C8_Witness ==
    /\ pc = "error"
    /\ stage = "check"
    /\ error = "arithmetic operands must share numeric type"
    /\ program.functions[1].body.statements =
           <<ExprStmt(Binary("Add", One, Literal("Int", 2, "I64")))>>

(***************************************************************************)
(* C9                                                                      *)
(***************************************************************************)
\* the signature a function declares
declared(function) ==
    FunctionSignature(param_types(function.params, 1, <<>>).tys,
                      type_from_type_expr(function.return_type).ty)

\* C9: from the check of the first body on, the table of the type checker
\* holds the intrinsics and the declared signature of every function of
\* the program, and every typed call has the return type of its callee
C9_SignaturesBeforeBodies ==
    (pc = "check" \/ hir # <<>>) =>
        /\ \A name \in DOMAIN Intrinsics :
              /\ contains_key(checker.functions, name)
              /\ checker.functions[name] = Intrinsics[name]
        /\ \A i \in 1..Len(program.functions) :
              /\ contains_key(checker.functions, program.functions[i].name)
              /\ checker.functions[program.functions[i].name]
                     = declared(program.functions[i])
        /\ \A e \in TypedNodes :
              e.kind = "Call" => e.ty = checker.functions[e.callee].return_type

\* a program has been compiled whose main calls the helper declared after it
C9_Witness ==
    /\ Compiled
    /\ program.functions =
           <<Main(Yields(Call("helper", <<>>))),
             Function("helper", <<>>, i32, Yields(Zero))>>
    /\ \E e \in block_nodes(hir[1].body) : e.kind = "Call" /\ e.ty = "I32"

(***************************************************************************)
(* C10                                                                     *)
(***************************************************************************)
\* C10: the emitter returns no error for a program that the type checker
\* has accepted
C10_TypeCheckedEmits == TypeChecked => pc # "error"

(***************************************************************************)
(* What a function body means: the value and the stores that its source    *)
(* denotes, and the value and the stores that its emitted code produces.   *)
(* Both cover bodies of literals, variables, let, assignment, blocks, if,  *)
(* the operators + == && || and calls of store_u8; ok is FALSE elsewhere.  *)
(***************************************************************************)
\* the type of a literal, typed or as the type checker will type it
typed_as(lit) == IF "ty" \in DOMAIN lit THEN lit.ty ELSE literal_type(lit)

\* the innermost scope of env that binds name, 0 if none does
RECURSIVE binder(_, _, _)
binder(env, name, depth) ==
    IF depth = 0 THEN 0
    ELSE IF name \in DOMAIN env[depth] THEN depth
    ELSE binder(env, name, depth - 1)

\* a machine stops where it traps and where its construct is not covered
Stuck(m) == [m EXCEPT !.ok = FALSE]
Halted(m) == ~m.ok \/ m.trap

RECURSIVE eval_expression(_, _)
RECURSIVE eval_statements(_, _, _)
\* a block: its statements and tail in a scope of their own
eval_block(block, m) ==
    LET in_scope == eval_statements(block.statements, 1,
                                    [m EXCEPT !.env = Append(@, <<>>)])
        tailed == IF is_some(block.tail) /\ ~Halted(in_scope)
                  THEN eval_expression(unwrap(block.tail), in_scope)
                  ELSE [in_scope EXCEPT !.value = 0]
    IN  [tailed EXCEPT !.env = SubSeq(@, 1, Len(@) - 1)]

eval_statement(stmt, m) ==
    CASE stmt.kind = "Let" ->
           LET v == eval_expression(stmt.value, m)
           IN  IF Halted(v) THEN v
               ELSE [v EXCEPT !.env[Len(v.env)] =
                                 [n \in DOMAIN @ \cup {stmt.name} |->
                                     IF n = stmt.name THEN v.value ELSE @[n]]]
      [] stmt.kind = "Assign" ->
           LET v == eval_expression(stmt.value, m)
               d == binder(v.env, stmt.target, Len(v.env))
           IN  IF Halted(v) THEN v
               ELSE IF d = 0 THEN Stuck(v)
               ELSE [v EXCEPT !.env[d][stmt.target] = v.value]
      [] stmt.kind = "Expr" -> eval_expression(stmt.expr, m)
      [] OTHER -> Stuck(m)

eval_statements(statements, i, m) ==
    IF Halted(m) \/ i > Len(statements) THEN m
    ELSE eval_statements(statements, i + 1, eval_statement(statements[i], m))

\* the value of an operator that is not a logical one, None where it traps
binary_value(op, a, b) ==
    CASE op = "Add" -> Some(wrapping_add(a, b))
      [] op = "Sub" -> Some(wrapping_sub(a, b))
      [] op = "Mul" -> Some(wrapping_mul(a, b))
      [] op = "Div" -> IF divides(a, b) THEN Some(div_s(a, b)) ELSE None
      [] op = "Rem" -> IF b # 0 THEN Some(rem_s(a, b)) ELSE None
      [] op = "BitAnd" -> Some(bit_and(a, b))
      [] op = "BitOr" -> Some(bit_or(a, b))
      [] op = "BitXor" -> Some(bit_xor(a, b))
      [] op = "Shl" -> Some(shl(a, b))
      [] op = "Shr" -> Some(shr_s(a, b))
      [] op = "Eq" -> Some(IF a = b THEN 1 ELSE 0)
      [] op = "Ne" -> Some(IF a # b THEN 1 ELSE 0)
      [] op = "Lt" -> Some(IF a < b THEN 1 ELSE 0)
      [] op = "Le" -> Some(IF a <= b THEN 1 ELSE 0)
      [] op = "Gt" -> Some(IF a > b THEN 1 ELSE 0)
      [] op = "Ge" -> Some(IF a >= b THEN 1 ELSE 0)

eval_binary(e, m) ==
    LET l == eval_expression(e.left, m)
        r == eval_expression(e.right, l)
        v == binary_value(e.op, l.value, r.value)
    IN  IF Halted(l) THEN l
        ELSE IF e.op = "And"
        THEN IF l.value = 0 THEN [l EXCEPT !.value = 0] ELSE r
        ELSE IF e.op = "Or"
        THEN IF l.value # 0 THEN [l EXCEPT !.value = 1] ELSE r
        ELSE IF Halted(r) THEN r
        ELSE IF is_some(v) THEN [r EXCEPT !.value = unwrap(v)]
        ELSE [r EXCEPT !.trap = TRUE]

eval_unary(e, m) ==
    LET v == eval_expression(e.expr, m)
    IN  IF Halted(v) THEN v
        ELSE IF e.op = "Neg" THEN [v EXCEPT !.value = wrapping_neg(@)]
        ELSE [v EXCEPT !.value = 1 - @]

eval_expression(e, m) ==
    IF Halted(m) THEN m
    ELSE CASE e.kind = "Literal" ->
                IF e.lit = "Float" \/ (e.lit = "Int" /\ typed_as(e) # "I32")
                THEN Stuck(m)
                ELSE [m EXCEPT !.value = e.val]
           [] e.kind = "Variable" ->
                LET d == binder(m.env, e.name, Len(m.env))
                IN  IF d = 0 THEN Stuck(m)
                    ELSE [m EXCEPT !.value = m.env[d][e.name]]
           [] e.kind = "Group" -> eval_expression(e.expr, m)
           [] e.kind = "Binary" -> eval_binary(e, m)
           [] e.kind = "Unary" -> eval_unary(e, m)
           [] e.kind = "Block" -> eval_block(e, m)
           [] e.kind = "If" ->
                LET c == eval_expression(e.condition, m)
                IN  IF Halted(c) THEN c
                    ELSE IF c.value # 0 THEN eval_block(e.then_branch, c)
                    ELSE IF is_some(e.else_branch)
                    THEN eval_expression(unwrap(e.else_branch), c)
                    ELSE [c EXCEPT !.value = 0]
           [] e.kind = "Call" /\ e.callee = "store_u8" /\ Len(e.args) = 2 ->
                LET a == eval_expression(e.args[1], m)
                    v == eval_expression(e.args[2], a)
                IN  IF Halted(v) THEN v
                    ELSE [v EXCEPT !.effects = Append(@, <<a.value, v.value>>),
                                   !.value = 0]
           [] OTHER -> Stuck(m)

\* what the body of a function denotes when applied to arguments
applied(function, args) ==
    eval_block(function.body,
               [ok |-> TRUE, trap |-> FALSE, effects |-> <<>>, value |-> 0,
                env |-> <<[name \in {function.params[i].name :
                                        i \in 1..Len(function.params)} |->
                             args[CHOOSE i \in 1..Len(function.params) :
                                      function.params[i].name = name]]>>])
\* what the body of a function without parameters denotes
denotes(function) == applied(function, <<>>)

\* the signed LEB128 number at pos and the position after it
RECURSIVE read_i32(_, _)
read_i32(bytes, pos) ==
    IF bytes[pos] >= 128
    THEN LET rest == read_i32(bytes, pos + 1)
         IN  [value |-> (bytes[pos] - 128) + 128 * rest.value,
              next |-> rest.next]
    ELSE [value |-> IF bytes[pos] >= 64 THEN bytes[pos] - 128 ELSE bytes[pos],
          next |-> pos + 1]

\* the position of the else or end that closes the construct open at pos
RECURSIVE closing(_, _, _)
closing(code, pos, depth) ==
    IF pos > Len(code) THEN pos
    ELSE LET op == code[pos]
         IN  CASE op \in {2, 3, 4} -> closing(code, pos + 2, depth + 1)
               [] op = 5 ->
                    IF depth = 0 THEN pos ELSE closing(code, pos + 1, depth)
               [] op = 11 ->
                    IF depth = 0 THEN pos
                    ELSE closing(code, pos + 1, depth - 1)
               [] op \in {12, 13, 16, 32, 33, 34, 65, 66} ->
                    closing(code, read_u32(code, pos + 1).next, depth)
               [] op \in 40..62 ->
                    closing(code,
                            read_u32(code, read_u32(code, pos + 1).next).next,
                            depth)
               [] op = 67 -> closing(code, pos + 5, depth)
               [] op = 68 -> closing(code, pos + 9, depth)
               [] OTHER -> closing(code, pos + 1, depth)

\* the machine with the top n values of its stack taken off
popped(m, n) == [m EXCEPT !.stack = SubSeq(@, 1, Len(@) - n)]
\* the value n places under the top of the stack
top(m, n) == m.stack[Len(m.stack) - n]

\* the machine after the instructions from pos up to an else or end that
\* closes what was open at pos, or up to the end of the code
RECURSIVE exec(_, _, _)
exec(code, pos, m) ==
    IF ~m.ok \/ pos > Len(code) THEN [m EXCEPT !.pos = pos]
    ELSE LET op == code[pos]
             immediate == read_i32(code, pos + 1)
             slot == read_u32(code, pos + 1)
         IN  CASE op = 65 ->
                    exec(code, immediate.next,
                         [m EXCEPT !.stack = Append(@, immediate.value)])
               [] op = 26 -> exec(code, pos + 1, popped(m, 1))
               [] op = 32 ->
                    exec(code, slot.next,
                         [m EXCEPT !.stack = Append(@, m.locals[slot.value])])
               [] op = 33 ->
                    exec(code, slot.next,
                         [popped(m, 1) EXCEPT !.locals[slot.value] = top(m, 0)])
               [] op = 106 ->
                    exec(code, pos + 1,
                         [popped(m, 2) EXCEPT
                             !.stack = Append(@, top(m, 1) + top(m, 0))])
               [] op = 70 ->
                    exec(code, pos + 1,
                         [popped(m, 2) EXCEPT
                             !.stack = Append(@, IF top(m, 1) = top(m, 0)
                                                 THEN 1 ELSE 0)])
               [] op = 113 ->
                    exec(code, pos + 1,
                         [popped(m, 2) EXCEPT
                             !.stack = Append(@, IF top(m, 1) # 0 /\ top(m, 0) # 0
                                                 THEN 1 ELSE 0)])
               [] op = 114 ->
                    exec(code, pos + 1,
                         [popped(m, 2) EXCEPT
                             !.stack = Append(@, IF top(m, 1) # 0 \/ top(m, 0) # 0
                                                 THEN 1 ELSE 0)])
               [] op = 58 ->
                    exec(code, pos + 3,
                         [popped(m, 2) EXCEPT
                             !.effects = Append(@, <<top(m, 1), top(m, 0)>>)])
               [] op = 4 ->
                    IF top(m, 0) # 0
                    THEN LET then_part == exec(code, pos + 2, popped(m, 1))
                         IN  IF then_part.pos <= Len(code)
                                /\ code[then_part.pos] = 5
                             THEN exec(code,
                                       closing(code, then_part.pos + 1, 0) + 1,
                                       then_part)
                             ELSE exec(code, then_part.pos + 1, then_part)
                    ELSE LET else_at == closing(code, pos + 2, 0)
                             else_part == exec(code, else_at + 1, popped(m, 1))
                         IN  IF else_at <= Len(code) /\ code[else_at] = 5
                             THEN exec(code, else_part.pos + 1, else_part)
                             ELSE exec(code, else_at + 1, popped(m, 1))
               [] op \in {5, 11} -> [m EXCEPT !.pos = pos]
               [] OTHER -> [Stuck(m) EXCEPT !.pos = pos]

\* what the code of a body without parameters produces
produces(body) ==
    exec(body.code, 1,
         [ok |-> TRUE, stack |-> <<>>, effects |-> <<>>, pos |-> 1,
          locals |-> [i \in 0..(Len(body.locals) - 1) |-> 0]])

\* the emitted code does what the source says: the same stores in the same
\* order, and the same value on the stack at the end
Agree(function, body) ==
    LET meant == denotes(function)
        target == produces(body)
    IN  /\ target.ok
        /\ ~meant.trap
        /\ target.effects = meant.effects
        /\ target.stack = <<meant.value>>

(***************************************************************************)
(* C11                                                                     *)
(***************************************************************************)
\* the function applies a logical operator
HasLogical(function) ==
    \E e \in block_nodes(function.body) : e.kind = "Binary" /\ e.op \in Logical

\* C11: the code emitted for a body that applies && or || performs the
\* stores of the right operand only when the left operand does not decide
\* the result, in the order of the source, and leaves the conjunction or
\* disjunction of the operands as the value
C11_ShortCircuit ==
    \A i \in 1..Len(bodies) :
        (HasLogical(program.functions[i]) /\ denotes(program.functions[i]).ok)
            => Agree(program.functions[i], bodies[i])

\* false && b, each operand with a store of its own, has been compiled: the
\* code stores for the left operand only and yields 0
C11_Witness ==
    /\ Compiled
    /\ program.functions =
           <<Observe(Binary("And", Eff(0, False), Eff(1, True)))>>
    /\ produces(bodies[1]).effects = << <<0, 1>> >>
    /\ produces(bodies[1]).stack = <<0>>

(***************************************************************************)
(* C12                                                                     *)
(***************************************************************************)
\* the arguments the functions under simplification are applied to
Arguments == {<<value, flag>> : value \in {0, 1, -1, 2, I32_MIN, I32_MAX},
                                flag \in {0, 1}}

\* two runs are the same to an observer: both trap or neither does, the
\* stores are the same in the same order, and without a trap so is the value
SameResult(a, b) ==
    /\ a.ok /\ b.ok
    /\ a.trap = b.trap
    /\ a.effects = b.effects
    /\ ~a.trap => a.value = b.value

\* C12: a function means the same before and after the simplification,
\* whatever its arguments: it traps in the same cases, stores the same
\* bytes in the same order and yields the same i32 or bool
C12_SimplificationPreserves ==
    \A i \in 1..Len(hir) : \A args \in Arguments :
        SameResult(applied(program.functions[i], args), applied(hir[i], args))

(***************************************************************************)
(* C13                                                                     *)
(***************************************************************************)
\* the function indices of the call instructions of a code, in its order
RECURSIVE call_targets(_, _)
call_targets(code, pos) ==
    IF pos > Len(code) THEN <<>>
    ELSE LET op == code[pos]
         IN  CASE op = 16 ->
                    <<read_u32(code, pos + 1).value>>
                    \o call_targets(code, read_u32(code, pos + 1).next)
               [] op \in {2, 3, 4} -> call_targets(code, pos + 2)
               [] op \in {12, 13, 32, 33, 34, 65, 66} ->
                    call_targets(code, read_u32(code, pos + 1).next)
               [] op \in 40..62 ->
                    call_targets(code,
                                 read_u32(code,
                                          read_u32(code, pos + 1).next).next)
               [] op = 67 -> call_targets(code, pos + 5)
               [] op = 68 -> call_targets(code, pos + 9)
               [] OTHER -> call_targets(code, pos + 1)

\* the functions of the program that the calls of a typed function name
called(function) ==
    {j \in 1..Len(program.functions) :
        \E e \in block_nodes(function.body) :
            /\ e.kind = "Call"
            /\ is_none(intrinsic(e.callee))
            /\ program.functions[j].name = e.callee}

\* C13: in a module produced from the functions f1..fn, the export section
\* lists the memory and then f1..fn in the order of the source, fi with the
\* function index i-1, and the call instructions of every body carry the
\* indices i-1 of the functions fi that the body's source calls
C13_SourceOrderIndices ==
    Compiled =>
        /\ module_exports(module) =
               <<[name |-> as_bytes("memory"), kind |-> 2, index |-> 0]>>
               \o [i \in 1..Len(program.functions) |->
                      [name |-> as_bytes(program.functions[i].name),
                       kind |-> 0, index |-> i - 1]]
        /\ \A i \in 1..Len(bodies) :
               {call_targets(bodies[i].code, 1)[k] :
                    k \in 1..Len(call_targets(bodies[i].code, 1))}
               = {j - 1 : j \in called(hir[i])}

\* a module of two functions has been produced: the second, main, calls the
\* first and the first calls main
C13_Witness ==
    /\ Compiled
    /\ Len(program.functions) = 2
    /\ program.functions[2].name = "main"
    /\ call_targets(bodies[1].code, 1) = <<1>>
    /\ call_targets(bodies[2].code, 1) = <<0>>
    /\ module_exports(module)[3].index = 1

(***************************************************************************)
(* C14                                                                     *)
(***************************************************************************)
\* the names in scope where a block starts are those of scopes, innermost
\* last; lexically_scoped tells that a tree declares no name twice in one
\* block and uses no name outside the block that declares it
RECURSIVE lexically_scoped(_, _), scoped_from(_, _, _)
scoped_block(b, scopes) == scoped_from(b, 1, Append(scopes, {}))
scoped_option(o, scopes) ==
    IF is_some(o) THEN lexically_scoped(unwrap(o), scopes) ELSE TRUE
lexically_scoped(e, scopes) ==
    CASE e.kind = "Literal" -> TRUE
      [] e.kind = "Variable" -> \E k \in DOMAIN scopes : e.name \in scopes[k]
      [] e.kind = "Binary" ->
           lexically_scoped(e.left, scopes) /\ lexically_scoped(e.right, scopes)
      [] e.kind \in {"Unary", "Group"} -> lexically_scoped(e.expr, scopes)
      [] e.kind = "Call" ->
           \A i \in DOMAIN e.args : lexically_scoped(e.args[i], scopes)
      [] e.kind = "If" ->
           /\ lexically_scoped(e.condition, scopes)
           /\ scoped_block(e.then_branch, scopes)
           /\ scoped_option(e.else_branch, scopes)
      [] e.kind = "Block" -> scoped_block(e, scopes)
      [] e.kind = "Loop" -> scoped_block(e.body, scopes)
      [] e.kind = "While" ->
           lexically_scoped(e.condition, scopes) /\ scoped_block(e.body, scopes)
scoped_from(b, i, scopes) ==
    IF i > Len(b.statements) THEN scoped_option(b.tail, scopes)
    ELSE LET s == b.statements[i]
             n == Len(scopes)
         IN  CASE s.kind = "Let" ->
                    /\ lexically_scoped(s.value, scopes)
                    /\ s.name \notin scopes[n]
                    /\ scoped_from(b, i + 1,
                                   [scopes EXCEPT ![n] = @ \cup {s.name}])
               [] s.kind = "Assign" ->
                    /\ \E k \in DOMAIN scopes : s.target \in scopes[k]
                    /\ lexically_scoped(s.value, scopes)
                    /\ scoped_from(b, i + 1, scopes)
               [] s.kind \in {"Return", "Break"} ->
                    scoped_option(s.value, scopes) /\ scoped_from(b, i + 1, scopes)
               [] s.kind = "Continue" -> scoped_from(b, i + 1, scopes)
               [] s.kind = "Expr" ->
                    lexically_scoped(s.expr, scopes) /\ scoped_from(b, i + 1, scopes)
\* the body of a function, under the scope of its parameters
scoped_function(function) ==
    scoped_block(function.body,
                 <<{function.params[i].name : i \in DOMAIN function.params}>>)

\* C14: every function that the type checker accepts is lexically scoped:
\* no block declares a name twice, and every name is used inside the block
\* that declares it or inside a block nested in that one; and the type
\* checker rejects a function for a name already defined or an unknown
\* identifier only if the function is not lexically scoped, so that a
\* nested block may declare the name of an outer block again
C14_LexicalScopes ==
    /\ \A i \in 1..Len(hir) : scoped_function(program.functions[i])
    /\ (pc = "error" /\ stage = "check"
          /\ error \in {"variable already defined in this scope",
                        "unknown identifier"})
         => ~scoped_function(program.functions[index])

\* main has been rejected for its tail y, which only a nested block that
\* has ended declares
C14_Witness ==
    /\ pc = "error"
    /\ error = "unknown identifier"
    /\ program.functions =
           <<Main(Block(<<ExprStmt(Nested(<<Bind("y", One)>>, Variable("y")))>>,
                        Some(Variable("y"))))>>

(***************************************************************************)
(* C15                                                                     *)
(***************************************************************************)
\* the function declares a local
HasLet(function) ==
    \/ \E i \in DOMAIN function.body.statements :
           function.body.statements[i].kind = "Let"
    \/ \E e \in block_nodes(function.body) :
           /\ e.kind = "Block"
           /\ \E i \in DOMAIN e.statements : e.statements[i].kind = "Let"

\* C15: the code emitted for a function that declares locals computes what
\* the source says when every initializer is evaluated in the scope as it
\* is before its let, the scope in which the type checker types it
C15_InitializerBeforeBinding ==
    \A i \in 1..Len(bodies) :
        (HasLet(program.functions[i]) /\ denotes(program.functions[i]).ok)
            => Agree(program.functions[i], bodies[i])

(***************************************************************************)
(* C16                                                                     *)
(***************************************************************************)
\* C16: in every function that the type checker accepts, the branches of
\* an if with else have one type, which is the type of the if, and an if
\* without else has type unit and a then-branch of type unit
C16_BranchTypes ==
    \A e \in TypedNodes :
        e.kind = "If" =>
            IF is_some(e.else_branch)
            THEN /\ block_ty(e.then_branch) = expr_ty(unwrap(e.else_branch))
                 /\ e.ty = block_ty(e.then_branch)
            ELSE /\ e.ty = "Unit"
                 /\ block_ty(e.then_branch) = "Unit"

(***************************************************************************)
(* C17                                                                     *)
(***************************************************************************)
\* C17: the body of every function that the type checker accepts has the
\* declared return type of the function, unit included
C17_BodyHasReturnType ==
    \A i \in 1..Len(hir) : block_ty(hir[i].body) = hir[i].return_type

(***************************************************************************)
(* C18                                                                     *)
(***************************************************************************)
\* C18: in every function that the type checker accepts, the body of every
\* loop and of every while has type unit
C18_LoopBodyIsUnit ==
    \A e \in TypedNodes :
        e.kind \in {"Loop", "While"} => block_ty(e.body) = "Unit"

(***************************************************************************)
(* C19                                                                     *)
(***************************************************************************)
\* the statement declares a local of an integer type and initializes it with
\* an integer literal that has no suffix
LetOfUnsuffixed(s) ==
    /\ s.kind = "Let"
    /\ s.ty \in {Named("i32"), Named("i64")}
    /\ s.value.kind = "Literal"
    /\ s.value.lit = "Int"
    /\ s.value.suffix = "None"
    /\ s.value.val \in I32_MIN..I32_MAX

\* main is such a let, followed by the tail 0
AdoptingLet ==
    /\ Len(program.functions) = 1
    /\ program.functions[1].name = "main"
    /\ Len(program.functions[1].body.statements) = 1
    /\ LetOfUnsuffixed(program.functions[1].body.statements[1])
    /\ program.functions[1].body.tail = Some(Zero)

\* C19: a let of an integer type whose initializer is an unsuffixed integer
\* literal that fits the type is accepted by the type checker, and the typed
\* literal has the declared type of the let
C19_LiteralAdoptsContext ==
    AdoptingLet =>
        /\ ~(pc = "error" /\ stage = "check")
        /\ hir # <<>> =>
               hir[1].body.statements[1].value.ty
                   = type_from_type_expr(
                         program.functions[1].body.statements[1].ty).ty

(***************************************************************************)
(* C20                                                                     *)
(***************************************************************************)
\* the nine precedence levels of the binary operators
Level(kind) ==
    CASE kind \in {"Star", "Slash", "Percent"} -> 20
      [] kind \in {"Plus", "Minus"} -> 10
      [] kind \in {"ShiftLeft", "ShiftRight"} -> 9
      [] kind = "Ampersand" -> 8
      [] kind = "Caret" -> 7
      [] kind = "Pipe" -> 6
      [] kind \in {"DoubleEquals", "NotEquals", "LessThan", "LessThanEqual",
                   "GreaterThan", "GreaterThanEqual"} -> 5
      [] kind = "AndAnd" -> 3
      [] kind = "OrOr" -> 2

\* the operator that a token stands for
Operator(kind) ==
    CASE kind = "Star" -> "Mul" [] kind = "Slash" -> "Div"
      [] kind = "Percent" -> "Rem" [] kind = "Plus" -> "Add"
      [] kind = "Minus" -> "Sub" [] kind = "ShiftLeft" -> "Shl"
      [] kind = "ShiftRight" -> "Shr" [] kind = "Ampersand" -> "BitAnd"
      [] kind = "Caret" -> "BitXor" [] kind = "Pipe" -> "BitOr"
      [] kind = "DoubleEquals" -> "Eq" [] kind = "NotEquals" -> "Ne"
      [] kind = "LessThan" -> "Lt" [] kind = "LessThanEqual" -> "Le"
      [] kind = "GreaterThan" -> "Gt" [] kind = "GreaterThanEqual" -> "Ge"
      [] kind = "AndAnd" -> "And" [] kind = "OrOr" -> "Or"

\* the tree of a op1 b op2 c under the levels
Grouped(op1, op2) ==
    IF Level(op1) >= Level(op2)
    THEN Binary(Operator(op2),
                Binary(Operator(op1), Variable("a"), Variable("b")),
                Variable("c"))
    ELSE Binary(Operator(op1), Variable("a"),
                Binary(Operator(op2), Variable("b"), Variable("c")))

\* C20: the parser accepts a op1 b op2 c for every two binary operators,
\* as (a op1 b) op2 c when the level of op1 is at least the level of op2
\* and as a op1 (b op2 c) otherwise
C20_Precedence ==
    (tokens \in OperatorSources /\ pc # "parse") =>
        /\ pc = "parsed"
        /\ program.functions[1].body.tail
               = Some(Grouped(tokens[9].kind, tokens[11].kind))

(***************************************************************************)
(* C21                                                                     *)
(***************************************************************************)
\* the tokens without the commas that a closing parenthesis follows
RECURSIVE without_trailing(_)
without_trailing(toks) ==
    IF Len(toks) < 2 THEN toks
    ELSE IF toks[1].kind = "Comma" /\ toks[2].kind = "RParen"
    THEN without_trailing(Tail(toks))
    ELSE <<toks[1]>> \o without_trailing(Tail(toks))

\* C21: a source with a comma after the last parameter or after the last
\* argument is accepted, and parses to the tree of the source without
\* those commas
C21_TrailingCommas ==
    (tokens \in CommaSources /\ pc # "parse") =>
        /\ pc = "parsed"
        /\ Parsed(program, Len(without_trailing(tokens)))
               = parse_program(without_trailing(tokens))

(***************************************************************************)
(* C22                                                                     *)
(***************************************************************************)
\* the calls of next that came back with a lexer error
Errors == {i \in 1..Len(yielded) : yielded[i] # None /\ ~yielded[i][1].ok}

\* C22: no stage goes on after a diagnostic: every call of the lexer after
\* one that yielded an error yields nothing, and a compilation that stopped
\* with an error has produced no module
C22_NoStageContinues ==
    /\ \A i \in Errors : \A j \in (i + 1)..Len(yielded) : yielded[j] = None
    /\ pc = "error" => module = <<>>

(***************************************************************************)
(* C23                                                                     *)
(***************************************************************************)
\* the calls of next that came back with the end-of-input token
Eofs == {i \in 1..Len(yielded) :
            /\ yielded[i] # None
            /\ yielded[i][1].ok
            /\ yielded[i][1].value.kind.kind = "Eof"}

\* C23: on an input without a lexer error the tokens end with exactly one
\* Eof, whose span is empty and lies at the byte length of the input, and
\* every call after it yields nothing
C23_EndsWithOneEof ==
    (pc = "lex" /\ Errors = {}) =>
        /\ Cardinality(Eofs) <= 1
        /\ \A i \in Eofs :
               /\ yielded[i][1].value.span
                      = Span(byte_len(source), byte_len(source))
               /\ \A j \in (i + 1)..Len(yielded) : yielded[j] = None
        /\ \A i \in 1..Len(yielded) :
               yielded[i] = None => \E j \in Eofs : j < i
        /\ lexer.finished <=> Eofs # {}
        /\ Len(yielded) > Len(source) => Eofs # {}

C23_Witness ==
    /\ pc = "lex"
    /\ source = <<"a", "é">>
    /\ Errors = {}
    /\ Eofs = {2}
    /\ yielded[2][1].value.span = Span(3, 3)
    /\ Len(yielded) = 4
    /\ yielded[4] = None

(***************************************************************************)
(* C24                                                                     *)
(***************************************************************************)
\* C24: every emitted module declares exactly one memory, of 16 pages
\* initially and without a maximum, and exports it as memory
C24_OneMemoryOf16Pages ==
    pc = "done" =>
        /\ section(module, 5) = <<1, 0, 16>>
        /\ \E e \in {module_exports(module)[i] :
                        i \in 1..Len(module_exports(module))} :
               e.name = as_bytes("memory") /\ e.kind = 2 /\ e.index = 0

(***************************************************************************)
(* C25                                                                     *)
(***************************************************************************)
\* the signature of every function, in source order, as a module states it
signatures ==
    [i \in 1..Len(func_types) |->
        [params |-> func_types[i].params, results |-> func_types[i].result]]

RECURSIVE first_declared(_, _)
\* the distinct elements of a sequence in the order of their first places
first_declared(seq, seen) ==
    IF seq = <<>> THEN <<>>
    ELSE IF seq[1] \in seen THEN first_declared(Tail(seq), seen)
    ELSE <<seq[1]>> \o first_declared(Tail(seq), seen \cup {seq[1]})

\* C25: the type section has one entry per distinct signature, in the
\* order of first declaration, and the function section gives every
\* function the entry of its signature, so that functions of one signature
\* share one type index
C25_DistinctSignatures ==
    pc = "done" =>
        /\ module_types(module) = first_declared(signatures, {})
        /\ \A i \in 1..Len(signatures) :
               module_function_type(module, i - 1) = signatures[i]
        /\ \A i, j \in 1..Len(signatures) :
               signatures[i] = signatures[j] =>
                   module_functions(module)[i] = module_functions(module)[j]

(***************************************************************************)
(* C26                                                                     *)
(***************************************************************************)
\* the br and br_if instructions of a code in their order, each with its
\* depth and with the labels that are open where it stands, outermost first
RECURSIVE branches(_, _, _)
branches(code, pos, labels) ==
    IF pos > Len(code) THEN <<>>
    ELSE LET op == code[pos]
             number == read_u32(code, pos + 1)
         IN  CASE op = 2 -> branches(code, pos + 2, Append(labels, "Block"))
               [] op = 3 -> branches(code, pos + 2, Append(labels, "Loop"))
               [] op = 4 -> branches(code, pos + 2, Append(labels, "If"))
               [] op = 11 ->
                    branches(code, pos + 1, SubSeq(labels, 1, Len(labels) - 1))
               [] op \in {12, 13} ->
                    <<[op |-> op, depth |-> number.value, labels |-> labels]>>
                    \o branches(code, number.next, labels)
               [] op \in {16, 32, 33, 34, 65, 66} ->
                    branches(code, number.next, labels)
               [] op \in 40..62 ->
                    branches(code, read_u32(code, number.next).next, labels)
               [] op = 67 -> branches(code, pos + 5, labels)
               [] op = 68 -> branches(code, pos + 9, labels)
               [] OTHER -> branches(code, pos + 1, labels)

\* the labels that the jumps of a typed tree go to, in the order in which
\* the tree is emitted: a break and the exit test of a while go to the
\* block of a loop, a continue and the end of a loop body to its loop
RECURSIVE expr_targets(_), statements_targets(_, _), args_targets(_, _)
option_targets(o) == IF is_some(o) THEN expr_targets(unwrap(o)) ELSE <<>>
statement_targets(s) ==
    CASE s.kind \in {"Let", "Assign"} -> expr_targets(s.value)
      [] s.kind = "Return" -> option_targets(s.value)
      [] s.kind = "Break" -> option_targets(s.value) \o <<"Block">>
      [] s.kind = "Continue" -> <<"Loop">>
      [] s.kind = "Expr" -> expr_targets(s.expr)
statements_targets(statements, i) ==
    IF i > Len(statements) THEN <<>>
    ELSE statement_targets(statements[i])
         \o statements_targets(statements, i + 1)
block_targets(b) == statements_targets(b.statements, 1) \o option_targets(b.tail)
args_targets(args, i) ==
    IF i > Len(args) THEN <<>>
    ELSE expr_targets(args[i]) \o args_targets(args, i + 1)
expr_targets(e) ==
    CASE e.kind \in {"Literal", "Variable"} -> <<>>
      [] e.kind = "Binary" -> expr_targets(e.left) \o expr_targets(e.right)
      [] e.kind \in {"Unary", "Group"} -> expr_targets(e.expr)
      [] e.kind = "Call" -> args_targets(e.args, 1)
      [] e.kind = "If" ->
           expr_targets(e.condition) \o block_targets(e.then_branch)
           \o option_targets(e.else_branch)
      [] e.kind = "Block" -> block_targets(e)
      [] e.kind = "Loop" -> block_targets(e.body) \o <<"Loop">>
      [] e.kind = "While" ->
           expr_targets(e.condition) \o <<"Block">> \o block_targets(e.body)
           \o <<"Loop">>

\* the place of the innermost loop label among the open labels, 0 if none
innermost_loop(labels) ==
    IF \E j \in 1..Len(labels) : labels[j] = "Loop"
    THEN CHOOSE j \in 1..Len(labels) :
             /\ labels[j] = "Loop"
             /\ \A k \in (j + 1)..Len(labels) : labels[k] # "Loop"
    ELSE 0

\* the branch goes to the label of the given kind of the innermost loop:
\* its depth is the number of labels opened after that label and still open
on_target(branch, kind) ==
    LET inner == innermost_loop(branch.labels)
        target == IF kind = "Loop" THEN inner ELSE inner - 1
    IN  /\ inner >= 2
        /\ branch.labels[inner - 1] = "Block"
        /\ branch.depth = Len(branch.labels) - target

\* C26: every break and continue, under however many if and short-circuit
\* labels inside its loop, is a br whose depth is the number of labels
\* opened after its target and not yet closed; a break goes to the outer
\* block and a continue to the inner loop of the innermost loop
C26_BranchDepths ==
    \A i \in 1..Len(bodies) :
        LET found == branches(bodies[i].code, 1, <<>>)
            meant == block_targets(hir[i].body)
        IN  /\ Len(found) = Len(meant)
            /\ \A k \in 1..Len(found) : on_target(found[k], meant[k])

\* a loop in a loop has been compiled whose break lies in the right operand
\* of an && in the right operand of an ||: two labels are open above the
\* loop, and three above the block that the break leaves
C26_Witness ==
    /\ Compiled
    /\ program.functions
           = <<Main(Block(<<Wrap("loop", <<Wrap("loop",
                   <<ExprStmt(Binary("Or", False,
                        Binary("And", True, Having(Break(None)))))>>)>>)>>,
                   Some(Zero)))>>
    /\ \E k \in 1..Len(branches(bodies[1].code, 1, <<>>)) :
           LET branch == branches(bodies[1].code, 1, <<>>)[k]
           IN  /\ branch.depth = 3
               /\ branch.labels = <<"Block", "Loop", "Block", "Loop", "If", "If">>

(***************************************************************************)
(* C27                                                                     *)
(***************************************************************************)
\* what an instruction without a label takes off the stack and puts on it
pops(op, callee) ==
    CASE op \in {26, 33, 13} -> 1
      [] op \in 40..53 \cup {69, 80} \cup 103..105 \cup 121..123
               \cup 139..145 \cup 153..159 \cup 167..191 -> 1
      [] op \in 54..62 -> 2
      [] op \in 70..79 \cup 81..102 \cup 106..120 \cup 124..138
               \cup 146..152 \cup 160..166 -> 2
      [] op = 16 -> Len(callee.params)
      [] OTHER -> 0
pushes(op, callee) ==
    CASE op \in {26, 33, 13} \cup 54..62 -> 0
      [] op = 16 -> Len(callee.result)
      [] op \in {32} \cup 65..68 \cup 40..53 \cup 69..191 -> 1
      [] OTHER -> 0

\* a frame of the operand stack: the values pushed since its label was
\* opened and the values its block type requires at its end
Frame(kind, results) == [kind |-> kind, results |-> results, height |-> 0]
closed(frame) == frame.height = frame.results
block_results(byte) == IF byte = 64 THEN 0 ELSE 1

\* the code from pos keeps the heights that its block types require,
\* instruction after instruction in the order of emission: no instruction
\* takes more than its frame holds, every else and end comes at the height
\* of its block type, and so does the end of the code.  A jump takes what
\* its target carries and a return what the function returns; the code
\* behind them is counted like any other.
RECURSIVE balanced(_, _, _)
balanced(code, pos, frames) ==
    LET n == Len(frames)
        frame == frames[n]
        op == code[pos]
        number == read_u32(code, pos + 1)
        callee == IF op = 16 THEN func_types[number.value + 1]
                  ELSE FuncType(<<>>, None)
        after(taken, put) == [frames EXCEPT ![n].height = @ - taken + put]
        open(kind, taken) ==
            Append(after(taken, 0), Frame(kind, block_results(code[pos + 1])))
        holds(taken) == frame.height >= taken
        next == CASE op \in {12, 13, 16, 32, 33, 34, 65, 66} -> number.next
                  [] op \in 40..62 -> read_u32(code, number.next).next
                  [] op = 67 -> pos + 5
                  [] op = 68 -> pos + 9
                  [] op \in {2, 3, 4} -> pos + 2
                  [] OTHER -> pos + 1
        carried(depth) ==
            IF depth >= n THEN 0
            ELSE IF frames[n - depth].kind = "Loop" THEN 0
            ELSE frames[n - depth].results
    IN  IF pos > Len(code) THEN n = 1 /\ closed(frame)
        ELSE CASE op = 2 -> balanced(code, next, open("Block", 0))
               [] op = 3 -> balanced(code, next, open("Loop", 0))
               [] op = 4 -> holds(1) /\ balanced(code, next, open("If", 1))
               [] op = 5 ->
                    /\ closed(frame)
                    /\ balanced(code, next, [frames EXCEPT ![n].height = 0])
               [] op = 11 ->
                    /\ n > 1
                    /\ closed(frame)
                    /\ balanced(code, next,
                                [SubSeq(frames, 1, n - 1) EXCEPT
                                    ![n - 1].height = @ + frame.results])
               [] op = 12 ->
                    /\ number.value < n
                    /\ holds(carried(number.value))
                    /\ balanced(code, next, after(carried(number.value), 0))
               [] op = 13 ->
                    /\ number.value < n
                    /\ holds(1 + carried(number.value))
                    /\ balanced(code, next, after(1, 0))
               [] op = 15 ->
                    /\ holds(frames[1].results)
                    /\ balanced(code, next, after(frames[1].results, 0))
               [] OTHER ->
                    /\ holds(pops(op, callee))
                    /\ balanced(code, next,
                                after(pops(op, callee), pushes(op, callee)))

RECURSIVE emitted_loops(_, _, _, _)
emitted_loops(code, pos, labels, opened) ==
    IF pos > Len(code) THEN <<>>
    ELSE LET op == code[pos]
             number == read_u32(code, pos + 1)
             target == Len(labels) - number.value
             loop == IF target < 1 THEN 0
                     ELSE IF labels[target] > 0 THEN labels[target]
                     ELSE IF target < Len(labels) THEN labels[target + 1]
                     ELSE 0
         IN  CASE op \in {2, 4} ->
                    emitted_loops(code, pos + 2, Append(labels, 0), opened)
               [] op = 3 ->
                    emitted_loops(code, pos + 2, Append(labels, opened + 1),
                                  opened + 1)
               [] op = 11 ->
                    emitted_loops(code, pos + 1,
                                  SubSeq(labels, 1, Len(labels) - 1), opened)
               [] op \in {12, 13} ->
                    <<loop>> \o emitted_loops(code, number.next, labels, opened)
               [] op \in {16, 32, 33, 34, 65, 66} ->
                    emitted_loops(code, number.next, labels, opened)
               [] op \in 40..62 ->
                    emitted_loops(code, read_u32(code, number.next).next,
                                  labels, opened)
               [] op = 67 -> emitted_loops(code, pos + 5, labels, opened)
               [] op = 68 -> emitted_loops(code, pos + 9, labels, opened)
               [] OTHER -> emitted_loops(code, pos + 1, labels, opened)

\* the loops that the type checker gives the jumps of a typed tree, in the
\* order of emission.  A loop is named by its place among the loops of the
\* tree; stack is the loop stack of the type checker: a loop is on it for
\* its body, a while for its body but not for its condition.  The exit
\* test of a while and the end of a body belong to their own loop.
jump(acc, loop) == [acc EXCEPT !.jumps = Append(@, loop)]
innermost(stack) == IF stack = <<>> THEN 0 ELSE stack[Len(stack)]
RECURSIVE expr_loops(_, _, _), statements_loops(_, _, _, _),
          args_loops(_, _, _, _)
option_loops(o, stack, acc) ==
    IF is_some(o) THEN expr_loops(unwrap(o), stack, acc) ELSE acc
statement_loops(s, stack, acc) ==
    CASE s.kind \in {"Let", "Assign"} -> expr_loops(s.value, stack, acc)
      [] s.kind = "Return" -> option_loops(s.value, stack, acc)
      [] s.kind = "Break" ->
           jump(option_loops(s.value, stack, acc), innermost(stack))
      [] s.kind = "Continue" -> jump(acc, innermost(stack))
      [] s.kind = "Expr" -> expr_loops(s.expr, stack, acc)
statements_loops(statements, i, stack, acc) ==
    IF i > Len(statements) THEN acc
    ELSE statements_loops(statements, i + 1, stack,
                          statement_loops(statements[i], stack, acc))
block_loops(b, stack, acc) ==
    option_loops(b.tail, stack, statements_loops(b.statements, 1, stack, acc))
args_loops(args, i, stack, acc) ==
    IF i > Len(args) THEN acc
    ELSE args_loops(args, i + 1, stack, expr_loops(args[i], stack, acc))
expr_loops(e, stack, acc) ==
    LET loop == acc.opened + 1
        entered == [acc EXCEPT !.opened = loop]
    IN  CASE e.kind \in {"Literal", "Variable"} -> acc
          [] e.kind = "Binary" ->
               expr_loops(e.right, stack, expr_loops(e.left, stack, acc))
          [] e.kind \in {"Unary", "Group"} -> expr_loops(e.expr, stack, acc)
          [] e.kind = "Call" -> args_loops(e.args, 1, stack, acc)
          [] e.kind = "If" ->
               option_loops(e.else_branch, stack,
                   block_loops(e.then_branch, stack,
                       expr_loops(e.condition, stack, acc)))
          [] e.kind = "Block" -> block_loops(e, stack, acc)
          [] e.kind = "Loop" ->
               jump(block_loops(e.body, Append(stack, loop), entered), loop)
          [] e.kind = "While" ->
               jump(block_loops(e.body, Append(stack, loop),
                                jump(expr_loops(e.condition, stack, entered),
                                     loop)),
                    loop)
checked_loops(function) ==
    block_loops(function.body, <<>>, [jumps |-> <<>>, opened |-> 0]).jumps

\* C28: every break and continue goes, in the emitted code, to the loop
\* that the type checker has given it, also when it stands in a block that
\* is the condition of a while
C28_SameLoop ==
    \A i \in 1..Len(bodies) :
        emitted_loops(bodies[i].code, 1, <<>>, 0) = checked_loops(hir[i])

(***************************************************************************)
(* C29                                                                     *)
(***************************************************************************)
\* the blocks of a typed function and their statements
blocks_of(function) ==
    {function.body}
    \cup {e.body : e \in {n \in block_nodes(function.body) :
                             n.kind \in {"Loop", "While"}}}
    \cup {e.then_branch : e \in {n \in block_nodes(function.body) :
                                    n.kind = "If"}}
    \cup {[statements |-> e.statements, tail |-> e.tail] :
             e \in {n \in block_nodes(function.body) : n.kind = "Block"}}
statements_of(function) ==
    UNION {{b.statements[k] : k \in 1..Len(b.statements)} :
              b \in blocks_of(function)}

\* an emitter in the middle of the function: in a loop that lies under an
\* if, with every name of the function bound
amid(function) ==
    LET names == {e.name : e \in {n \in block_nodes(function.body) :
                                     n.kind = "Variable"}}
                 \cup {s.target : s \in {t \in statements_of(function) :
                                            t.kind = "Assign"}}
        fresh == FunctionEmitter_new(function, function_indices)
    IN  [fresh EXCEPT !.scopes = <<[name \in names |-> Binding(0)]>>,
                      !.label_stack = <<"If", "Block", "Loop">>,
                      !.loop_stack = <<EmitLoopContext(1, 2, None)>>]

\* the result is no success or has the stacks of labels and of loops as
\* long as they were at the start
restored(result, start) ==
    result.ok =>
        /\ Len(result.self.label_stack) = Len(start.label_stack)
        /\ Len(result.self.loop_stack) = Len(start.loop_stack)

\* the number of labels a code leaves open, -1 if it closes one that it
\* has not opened
RECURSIVE nesting(_, _, _)
nesting(code, pos, depth) ==
    IF pos > Len(code) THEN depth
    ELSE LET op == code[pos]
             number == read_u32(code, pos + 1)
         IN  CASE op \in {2, 3, 4} -> nesting(code, pos + 2, depth + 1)
               [] op = 11 ->
                    IF depth = 0 THEN -1 ELSE nesting(code, pos + 1, depth - 1)
               [] op \in {12, 13, 16, 32, 33, 34, 65, 66} ->
                    nesting(code, number.next, depth)
               [] op \in 40..62 ->
                    nesting(code, read_u32(code, number.next).next, depth)
               [] op = 67 -> nesting(code, pos + 5, depth)
               [] op = 68 -> nesting(code, pos + 9, depth)
               [] OTHER -> nesting(code, pos + 1, depth)

\* the labels opened in a code
RECURSIVE opened_labels(_, _)
opened_labels(code, pos) ==
    IF pos > Len(code) THEN 0
    ELSE LET op == code[pos]
             number == read_u32(code, pos + 1)
         IN  CASE op \in {2, 3, 4} -> 1 + opened_labels(code, pos + 2)
               [] op \in {12, 13, 16, 32, 33, 34, 65, 66} ->
                    opened_labels(code, number.next)
               [] op \in 40..62 ->
                    opened_labels(code, read_u32(code, number.next).next)
               [] op = 67 -> opened_labels(code, pos + 5)
               [] op = 68 -> opened_labels(code, pos + 9)
               [] OTHER -> opened_labels(code, pos + 1)

\* C29: the emission of an expression or statement that succeeds leaves the
\* label stack and the loop stack of the emitter as long as it found them,
\* both are empty when a function body is finished, and in the code of a
\* body every block, loop and if is closed by one end of its own
C29_StacksRestored ==
    Compiled =>
        \A i \in 1..Len(bodies) :
            LET start == FunctionEmitter_new(hir[i], function_indices)
                done(r) ==
                    /\ r.ok
                    /\ r.self.label_stack = <<>>
                    /\ r.self.loop_stack = <<>>
            IN  /\ done(emit_function(start, hir[i]))
                /\ \A e \in block_nodes(hir[i].body) :
                       restored(emit_expression(amid(hir[i]), e), amid(hir[i]))
                /\ \A s \in statements_of(hir[i]) :
                       restored(emit_statement(amid(hir[i]), s), amid(hir[i]))
                /\ nesting(bodies[i].code, 1, 0) = 0

\* a loop in a loop with a break under two short-circuit operators has
\* been compiled: its code opens six labels and closes them all
C29_Witness ==
    /\ Compiled
    /\ program.functions
           = <<Main(Block(<<Wrap("loop", <<Wrap("loop",
                   <<ExprStmt(Binary("Or", False,
                        Binary("And", True, Having(Break(None)))))>>)>>)>>,
                   Some(Zero)))>>
    /\ opened_labels(bodies[1].code, 1) = 6
    /\ nesting(bodies[1].code, 1, 0) = 0
    /\ emit_function(FunctionEmitter_new(hir[1], function_indices),
                     hir[1]).self.label_stack = <<>>

(***************************************************************************)
(* C30                                                                     *)
(***************************************************************************)
\* the type checker at the start of a function, and in the middle of one:
\* in the body of a loop, with every name of the function bound
at_start == [checker EXCEPT !.current_return_type = "I32"]
within(function) ==
    LET names == {e.name : e \in {n \in block_nodes(function.body) :
                                     n.kind = "Variable"}}
                 \cup {s.target : s \in {t \in statements_of(function) :
                                            t.kind = "Assign"}}
    IN  [at_start EXCEPT
            !.scopes = <<[name \in names |-> VariableInfo("I32", TRUE)]>>,
            !.loop_stack = <<LoopContext_new("Loop")>>]

\* the blocks, loops and whiles of a function
nested(function) ==
    {e \in block_nodes(function.body) : e.kind \in {"Block", "Loop", "While"}}

\* the result, a success or an error, has the scope stack and the loop
\* stack at the depth of the start
same_depth(result, start) ==
    /\ Len(result.self.scopes) = Len(start.scopes)
    /\ Len(result.self.loop_stack) = Len(start.loop_stack)

\* C30: when check_block, check_loop or check_while returns, with a success
\* or with an error, the scope stack and the loop stack of the type
\* checker are as deep as when it was entered
C30_DepthRestored ==
    /\ (pc = "check" /\ index <= Len(program.functions)) =>
           LET function == program.functions[index]
           IN  \A start \in {at_start, within(function)} :
                   /\ same_depth(check_block(start, function.body), start)
                   /\ \A e \in nested(function) :
                          same_depth(check_expression(start, e), start)
    /\ (pc \in {"check", "emit", "done"} \/ (pc = "error" /\ stage = "check")) =>
           checker.scopes = <<>> /\ checker.loop_stack = <<>>

\* a function is about to be checked whose loop breaks with values of two
\* types: check_loop returns an error from inside the body of the loop, and
\* both stacks are as deep as before
C30_Witness ==
    /\ pc = "check"
    /\ index = 1
    /\ program.functions
           = <<Main(Block(<<Wrap("loop", <<Break(Some(One)),
                                           Break(Some(True))>>)>>,
                          Some(Zero)))>>
    /\ LET start == within(program.functions[1])
           result == check_expression(start,
                         Loop(Block(<<Break(Some(One)), Break(Some(True))>>,
                                    None)))
       IN  /\ ~result.ok
           /\ same_depth(result, start)

====
